---- MODULE Spec2Model ----
(***************************************************************************)
(* A model of plotz: the PNG encoder of include/plotz/png.hpp, the render  *)
(* engines of include/plotz/magnitude.hpp, the heatmap of heatmap.hpp, the *)
(* spectrum of spectrum.hpp and the color tables of color_scheme.hpp.      *)
(*                                                                         *)
(* Numbers.  TLC integers are 32-bit signed, so a uint32_t is a pair       *)
(* <<hi, lo>> of 16-bit halves.  A float is modelled by an integer: every  *)
(* value the model stores is a small integer, on which float arithmetic is *)
(* exact; the two sentinels numeric_limits<float>::lowest() and ::max()    *)
(* are FLT_LOWEST and FLT_MAX, and FloatAdd absorbs at the sentinels as    *)
(* float addition of a small number to +-FLT_MAX does.                     *)
(* Where a quotient is not exact (the scale factors of magnitude_mapped    *)
(* and of the spectrum bins) the single-precision result is computed as a  *)
(* 24-bit significand and an exponent: Float32Div, Float32MulTrunc.        *)
(***************************************************************************)
EXTENDS Integers, Naturals, Sequences, FiniteSets, TLC

VARIABLES
    plot,          \* magnitude: [width, height, max_magnitude, min_magnitude, buffer]
    plot_calls,    \* calls made on the magnitude plot since construction or the last reset
    mapped,        \* magnitude_mapped: [input_width, input_height, image_width, image_height, ...]
    mapped_calls,  \* input cells given to magnitude_mapped::add_point since construction or reset
    crc_table,     \* static uint32_t crc_table[256]
    chk_fn,        \* the checksum function called last: "none", "crc", "adler32", or
                   \* "crc_before_init" for calculate_crc on the zero-initialised table
    chk_data,      \* its argument
    chk_result,    \* its result
    d_data,        \* deflate_compress_fixed: the input bytes
    d_pos,         \* its scan position pos
    d_tokens,      \* the literals and (length, distance) pairs emitted so far
    d_output,      \* its BitBuffer *output
    d_heap,        \* the allocator it runs on
    d_pc,          \* "call", "loop", "returned" or "returned_null"
    png_image,     \* encode_png: the PNGImage *image
    png_file,      \* the output file: [opens, closes, bytes]
    png_y,         \* the row counter y of the filter loop
    png_filtered,  \* the bytes copied into filtered_data so far
    png_chunk,     \* the chunk created last (ihdr, idat or iend)
    png_heap,      \* the allocator encode_png runs on
    png_lost,      \* [grow_failed, dropped] of the bit buffers of create_idat_chunk
    png_result,    \* "none" while encode_png runs, then "true" or "false"
    png_pc,        \* the position in encode_png
    heat,          \* heatmap: [width, height, max_heat, buffer]
    spect,         \* spectrum: [width, height, num_bins, peak_decay, max_magnitude,
                   \* min_magnitude, buffer, peak_values]
    grid,          \* magnitude_mapped_grid: [grid_size, global_max_magnitude,
                   \* global_min_magnitude, plots]
    last           \* the call made last on the plot under study: [target, op, ...]

magVars == <<plot, plot_calls>>
mappedVars == <<mapped, mapped_calls>>
crcVars == <<crc_table, chk_fn, chk_data, chk_result>>
deflateVars == <<d_data, d_pos, d_tokens, d_output, d_heap, d_pc>>
encodeVars == <<png_image, png_file, png_y, png_filtered, png_chunk, png_heap, png_lost,
                png_result, png_pc>>
plotsVars == <<heat, spect, grid, last>>
vars == <<heat, spect, grid, last, plot, plot_calls, mapped, mapped_calls, crc_table, chk_fn, chk_data, chk_result,
          d_data, d_pos, d_tokens, d_output, d_heap, d_pc,
          png_image, png_file, png_y, png_filtered, png_chunk, png_heap, png_lost,
          png_result, png_pc>>

(***************************************************************************)
(* Bounds of the model.                                                    *)
(***************************************************************************)
MaxDim == 2        \* largest width and height of a magnitude plot
MaxVal == 1        \* magnitude values are drawn from -MaxVal..MaxVal
MaxCalls == 2      \* calls explored between two resets of a magnitude plot
MaxStampDim == 3   \* largest width and height of a heatmap stamp
MaxPlotsCalls == 2 \* accumulating calls on a plot between two resets
MaxSpectCalls == 4 \* updates of a spectrum between two resets
MaxSteps == 3      \* largest steps_between_keys of a color scheme
MaxKeys == 3       \* most key colors of a color scheme
MaxBinWidth == 13  \* largest width of a spectrum whose bin ranges are computed
MaxPeakCalls == 2  \* updates of a spectrum before it is drawn with its peaks

(***************************************************************************)
(* Floats.                                                                 *)
(***************************************************************************)
FLT_MAX == 1000000
FLT_LOWEST == -1000000

FloatAdd(a, b) ==
    IF a = FLT_MAX \/ a = FLT_LOWEST THEN a
    ELSE IF b = FLT_MAX \/ b = FLT_LOWEST THEN b
    ELSE a + b

Min2(a, b) == IF b < a THEN b ELSE a
Max2(a, b) == IF a < b THEN b ELSE a

SetMax(S) == CHOOSE m \in S : \A s \in S : s <= m
SetMin(S) == CHOOSE m \in S : \A s \in S : m <= s

PowersOfTwo == <<1, 2, 4, 8, 16, 32, 64, 128, 256, 512, 1024, 2048, 4096, 8192, 16384,
                 32768, 65536, 131072, 262144, 524288, 1048576, 2097152, 4194304,
                 8388608, 16777216, 33554432, 67108864, 134217728, 268435456,
                 536870912, 1073741824>>
Pow2(n) == PowersOfTwo[n + 1]

(***************************************************************************)
(* Single precision, where the rounding of a quotient decides a pixel.     *)
(* static_cast<float>(a) / b and n * scale are computed as the hardware    *)
(* does: the exact result rounded to 24 significant bits, ties to even.    *)
(* A float32 is [m, k], the value m / 2^k with 2^23 <= m < 2^24 (m = 0 for *)
(* zero).  The operands are below 128, so every product stays below 2^31.  *)
(***************************************************************************)
RoundHalfEven(p, q) ==
    LET f == p \div q
        r == p % q
    IN IF 2 * r > q \/ (2 * r = q /\ f % 2 = 1) THEN f + 1 ELSE f

\* static_cast<float>(a) / b
Float32Div(a, b) ==
    IF a = 0 THEN [m |-> 0, k |-> 0]
    ELSE LET exp[k \in 0..30] == IF a * Pow2(k) >= Pow2(23) * b THEN k ELSE exp[k + 1]
             k == exp[0]
             m == RoundHalfEven(a * Pow2(k), b)
         IN IF m = Pow2(24) THEN [m |-> Pow2(23), k |-> k - 1] ELSE [m |-> m, k |-> k]

\* static_cast<uint32_t>(n * f) for an integer n and a float32 f
Float32MulTrunc(n, f) ==
    IF n = 0 \/ f.m = 0 THEN 0
    ELSE LET p == n * f.m
             drop[j \in 0..7] == IF p < Pow2(24 + j) THEN j ELSE drop[j + 1]
             j == drop[0]
             m == RoundHalfEven(p, Pow2(j))
         IN m \div Pow2(f.k - j)

(***************************************************************************)
(* magnitude (include/plotz/magnitude.hpp, src/magnitude.cpp).  The buffer *)
(* is row-major, indexed from 0: cell (x, y) is buffer[y * width + x].     *)
(***************************************************************************)
MagValues == (0 - MaxVal)..MaxVal

magnitude_new(width_in, height_in) ==
    [width |-> width_in, height |-> height_in,
     max_magnitude |-> FLT_LOWEST, min_magnitude |-> FLT_MAX,
     buffer |-> [i \in 0..(width_in * height_in - 1) |-> 0]]

\* magnitude::add_point with buffer[idx] += magnitude_value.
magnitude_add_point_accumulating(p, x, y, magnitude_value) ==
    IF x >= p.width \/ y >= p.height THEN p
    ELSE LET idx == y * p.width + x
             sum == FloatAdd(p.buffer[idx], magnitude_value)
         IN [p EXCEPT
               !.buffer = [p.buffer EXCEPT ![idx] = sum],
               !.max_magnitude = IF sum > p.max_magnitude THEN sum ELSE p.max_magnitude,
               !.min_magnitude = IF sum < p.min_magnitude THEN sum ELSE p.min_magnitude]

magnitude_add_point(p, x, y, magnitude_value) ==
    IF x >= p.width \/ y >= p.height THEN p
    ELSE LET idx == y * p.width + x
         IN [p EXCEPT
               !.buffer = [p.buffer EXCEPT ![idx] = magnitude_value],
               !.max_magnitude = IF magnitude_value > p.max_magnitude
                                 THEN magnitude_value ELSE p.max_magnitude,
               !.min_magnitude = IF magnitude_value < p.min_magnitude
                                 THEN magnitude_value ELSE p.min_magnitude]

magnitude_shift_buffer_to_non_negative(p) ==
    IF DOMAIN p.buffer = {} THEN p
    ELSE IF p.min_magnitude < 0
    THEN LET shift == 0 - p.min_magnitude
         IN [p EXCEPT
               !.buffer = [i \in DOMAIN p.buffer |-> FloatAdd(p.buffer[i], shift)],
               !.max_magnitude = FloatAdd(p.max_magnitude, shift),
               !.min_magnitude = 0]
    ELSE p

magnitude_reset(p) ==
    [p EXCEPT !.buffer = [i \in DOMAIN p.buffer |-> 0],
              !.max_magnitude = FLT_LOWEST,
              !.min_magnitude = FLT_MAX]

\* render(colors): the shift is the only change of the plot's state.
magnitude_render(p) == magnitude_shift_buffer_to_non_negative(p)

MagInit ==
    /\ \E w \in 0..MaxDim, h \in 0..MaxDim : plot = magnitude_new(w, h)
    /\ plot_calls = <<>>

MagIdle ==
    /\ plot = magnitude_new(0, 0)
    /\ plot_calls = <<>>

MagAddPoint ==
    /\ Len(plot_calls) < MaxCalls
    /\ \E x \in 0..plot.width, y \in 0..plot.height, v \in MagValues :
          /\ plot' = magnitude_add_point(plot, x, y, v)
          /\ plot_calls' = Append(plot_calls, [op |-> "add_point", x |-> x, y |-> y, v |-> v])
    /\ UNCHANGED <<plotsVars, mappedVars, crcVars, deflateVars, encodeVars>>

MagShift ==
    /\ Len(plot_calls) < MaxCalls
    /\ plot' = magnitude_shift_buffer_to_non_negative(plot)
    /\ plot_calls' = Append(plot_calls, [op |-> "shift", x |-> 0, y |-> 0, v |-> 0])
    /\ UNCHANGED <<plotsVars, mappedVars, crcVars, deflateVars, encodeVars>>

MagRender ==
    /\ Len(plot_calls) < MaxCalls
    /\ plot' = magnitude_render(plot)
    /\ plot_calls' = Append(plot_calls, [op |-> "render", x |-> 0, y |-> 0, v |-> 0])
    /\ UNCHANGED <<plotsVars, mappedVars, crcVars, deflateVars, encodeVars>>

MagReset ==
    /\ plot_calls # <<>>
    /\ plot' = magnitude_reset(plot)
    /\ plot_calls' = <<>>
    /\ UNCHANGED <<plotsVars, mappedVars, crcVars, deflateVars, encodeVars>>

(***************************************************************************)
(* magnitude_mapped (include/plotz/magnitude.hpp, src/magnitude.cpp).      *)
(* scale_x = float(image_width) / input_width and uint32_t(input_x *       *)
(* scale_x) are computed in single precision.                              *)
(***************************************************************************)
magnitude_mapped_new(width_in, height_in, img_width, img_height) ==
    [input_width |-> width_in, input_height |-> height_in,
     image_width |-> img_width, image_height |-> img_height,
     max_magnitude |-> FLT_LOWEST, min_magnitude |-> FLT_MAX,
     buffer |-> [i \in 0..(img_width * img_height - 1) |-> 0]]

\* The block of image pixels [start_x, end_x) x [start_y, end_y) of an input cell.
mapped_block(p, input_x, input_y) ==
    LET scale_x == Float32Div(p.image_width, p.input_width)
        scale_y == Float32Div(p.image_height, p.input_height)
        start_x == Float32MulTrunc(input_x, scale_x)
        start_y == Float32MulTrunc(input_y, scale_y)
        end_x == Min2(Float32MulTrunc(input_x + 1, scale_x), p.image_width)
        end_y == Min2(Float32MulTrunc(input_y + 1, scale_y), p.image_height)
    IN {img_y * p.image_width + img_x :
            img_x \in start_x..(end_x - 1), img_y \in start_y..(end_y - 1)}

magnitude_mapped_add_point(p, input_x, input_y, magnitude_value) ==
    IF p.input_width = 0 \/ p.input_height = 0 THEN p
    ELSE LET block == mapped_block(p, input_x, input_y)
             buf == [i \in DOMAIN p.buffer |->
                        IF i \in block THEN FloatAdd(p.buffer[i], magnitude_value)
                        ELSE p.buffer[i]]
         IN [p EXCEPT
               !.buffer = buf,
               !.max_magnitude = SetMax({p.max_magnitude} \cup {buf[i] : i \in block}),
               !.min_magnitude = SetMin({p.min_magnitude} \cup {buf[i] : i \in block})]

magnitude_mapped_reset(p) ==
    [p EXCEPT !.buffer = [i \in DOMAIN p.buffer |-> 0],
              !.max_magnitude = FLT_LOWEST,
              !.min_magnitude = FLT_MAX]

\* Downscaling plots: every input grid is at least as large as the image.
DownscaleShapes ==
    {<<4, 4, 1, 1>>, <<4, 4, 2, 2>>, <<2, 2, 1, 1>>, <<4, 2, 2, 1>>, <<3, 3, 1, 1>>}

MappedInit ==
    /\ \E s \in DownscaleShapes : mapped = magnitude_mapped_new(s[1], s[2], s[3], s[4])
    /\ mapped_calls = {}

MappedIdle ==
    /\ mapped = magnitude_mapped_new(0, 0, 0, 0)
    /\ mapped_calls = {}

\* add_point(x, y, 1.0) for an input cell that was not given yet.
MappedAddPoint ==
    /\ \E x \in 0..(mapped.input_width - 1), y \in 0..(mapped.input_height - 1) :
          /\ <<x, y>> \notin mapped_calls
          /\ mapped' = magnitude_mapped_add_point(mapped, x, y, 1)
          /\ mapped_calls' = mapped_calls \cup {<<x, y>>}
    /\ UNCHANGED <<magVars, plotsVars, crcVars, deflateVars, encodeVars>>

MappedReset ==
    /\ mapped_calls # {}
    /\ mapped' = magnitude_mapped_reset(mapped)
    /\ mapped_calls' = {}
    /\ UNCHANGED <<magVars, plotsVars, crcVars, deflateVars, encodeVars>>

(***************************************************************************)
(* 32-bit words as <<hi, lo>> pairs of 16-bit halves.                      *)
(***************************************************************************)
\* TLC evaluates operator arguments and LET definitions only when they are
\* used; Force(v, e) evaluates v first, then e, and equals e.  It keeps the
\* evaluation of loops that thread a value through many iterations shallow.
Force(v, e) == IF v = v THEN e ELSE e

\* Bind(v, F) is F(v) with v evaluated first: one statement's result handed
\* to the statements after it.
Bind(v, F(_)) == IF v = v THEN F(v) ELSE F(v)

Bit(a, k) == (a \div Pow2(k)) % 2

\* a ^ b for 16-bit a and b.
Xor(a, b) ==
    LET x(k) == ((Bit(a, k) + Bit(b, k)) % 2) * Pow2(k)
    IN ((((x(0) + x(1)) + (x(2) + x(3))) + ((x(4) + x(5)) + (x(6) + x(7))))
        + (((x(8) + x(9)) + (x(10) + x(11))) + ((x(12) + x(13)) + (x(14) + x(15)))))

Xor32(a, b) == <<Xor(a[1], b[1]), Xor(a[2], b[2])>>
Shr1(w) == <<w[1] \div 2, (w[2] \div 2) + (w[1] % 2) * 32768>>
Shr8(w) == <<w[1] \div 256, (w[2] \div 256) + (w[1] % 256) * 256>>
Word(lo) == <<0, lo>>
AllOnes == <<65535, 65535>>        \* 0xFFFFFFFF
CrcPoly == <<60856, 33568>>        \* 0xEDB88320

(***************************************************************************)
(* init_crc_table, calculate_crc, calculate_adler32 (png.hpp 168-207).     *)
(***************************************************************************)
\* The loops below are recursive functions of the loop variables (function
\* arguments are evaluated before the call, operator arguments are not).
crc_table_entry(i) ==
    LET bit_loop[j \in Nat, c \in Nat \X Nat] ==          \* for (j = 0; j < 8; j++)
            IF j >= 8 THEN c
            ELSE bit_loop[j + 1, IF c[2] % 2 = 1 THEN Xor32(CrcPoly, Shr1(c)) ELSE Shr1(c)]
    IN bit_loop[0, Word(i)]

init_crc_table == [i \in 0..255 |-> crc_table_entry(i)]

\* calculate_crc returning crc instead of crc ^ 0xFFFFFFFF.
calculate_crc_without_final_xor(table, data) ==
    LET crc_loop[i \in Nat, crc \in Nat \X Nat] ==
            IF i > Len(data) THEN crc
            ELSE crc_loop[i + 1, Xor32(table[Xor(crc[2] % 256, data[i])], Shr8(crc))]
    IN crc_loop[1, AllOnes]

calculate_crc(table, data) ==
    LET crc_loop[i \in Nat, crc \in Nat \X Nat] ==        \* for (i = 0; i < length; i++)
            IF i > Len(data) THEN crc
            ELSE crc_loop[i + 1, Xor32(table[Xor(crc[2] % 256, data[i])], Shr8(crc))]
    IN Xor32(crc_loop[1, AllOnes], AllOnes)

MOD_ADLER == 65521

\* (b << 16) | a with a, b < 65521: b is the high half, a the low half.
calculate_adler32(data) ==
    LET adler_loop[i \in Nat, a \in Nat, b \in Nat] ==
            IF i > Len(data) THEN <<b, a>>
            ELSE adler_loop[i + 1, (a + data[i]) % MOD_ADLER,
                            (b + ((a + data[i]) % MOD_ADLER)) % MOD_ADLER]
    IN adler_loop[1, 1, 0]

(***************************************************************************)
(* The checksum functions as callable operations.                          *)
(***************************************************************************)
MaxCrcLen == 3
CrcBytes == {0, 1, 128, 255}
Digits == <<49, 50, 51, 52, 53, 54, 55, 56, 57>>          \* "123456789"
Wikipedia == <<87, 105, 107, 105, 112, 101, 100, 105, 97>> \* "Wikipedia"

RECURSIVE SeqsUpTo(_, _)
SeqsUpTo(S, n) ==
    IF n = 0 THEN {<<>>}
    ELSE LET shorter == SeqsUpTo(S, n - 1)
         IN shorter \cup {Append(q, b) : q \in {r \in shorter : Len(r) = n - 1}, b \in S}

CrcInputs == SeqsUpTo(CrcBytes, MaxCrcLen) \cup {Digits, Wikipedia}

CrcInit ==
    /\ crc_table = [i \in 0..255 |-> <<0, 0>>]
    /\ chk_fn = "none"
    /\ chk_data = <<>>
    /\ chk_result = <<0, 0>>

CrcIdle == CrcInit

InitCrcTable ==
    /\ crc_table' = init_crc_table
    /\ UNCHANGED <<chk_fn, chk_data, chk_result, magVars, plotsVars, mappedVars, deflateVars, encodeVars>>

CalculateCrc ==
    /\ \E data \in CrcInputs :
          /\ chk_fn' = IF crc_table = init_crc_table THEN "crc" ELSE "crc_before_init"
          /\ chk_data' = data
          /\ chk_result' = calculate_crc(crc_table, data)
    /\ UNCHANGED <<crc_table, magVars, plotsVars, mappedVars, deflateVars, encodeVars>>

CalculateAdler32 ==
    /\ \E data \in CrcInputs :
          /\ chk_fn' = "adler32"
          /\ chk_data' = data
          /\ chk_result' = calculate_adler32(data)
    /\ UNCHANGED <<crc_table, magVars, plotsVars, mappedVars, deflateVars, encodeVars>>

(***************************************************************************)
(* The allocator.  heap.n counts the calls of malloc and realloc made so   *)
(* far; call number heap.fail_at returns NULL (0: none does), and so does  *)
(* every later call when heap.persistent (memory stays exhausted);         *)
(* heap.zero_null says whether malloc(0) returns NULL (the C standard      *)
(* allows both a null and a unique non-null pointer).                      *)
(***************************************************************************)
MaxFailAt == 8       \* deflate_compress_fixed: the first failing call is one of 1..MaxFailAt

HeapPlans(max_fail_at) ==
    {[n |-> 0, fail_at |-> k, persistent |-> p, zero_null |-> z] :
        k \in 1..max_fail_at, p \in BOOLEAN, z \in BOOLEAN}
    \cup {[n |-> 0, fail_at |-> 0, persistent |-> FALSE, zero_null |-> z] : z \in BOOLEAN}

heap_alloc(heap, size) ==
    [heap |-> [heap EXCEPT !.n = heap.n + 1],
     ok |-> /\ ~(heap.fail_at > 0 /\ (heap.n + 1 = heap.fail_at
                                       \/ (heap.persistent /\ heap.n + 1 > heap.fail_at)))
            /\ (size > 0 \/ ~heap.zero_null)]

(***************************************************************************)
(* BitBuffer (png.hpp 112-308).  buffer holds the `size` bytes written so  *)
(* far; bit_buffer is the set of the positions 0..31 of its one bits.      *)
(* Two flags record what the code itself does not: grow_failed, a growth   *)
(* of the buffer has failed; dropped, output bits or bytes were discarded. *)
(* Every operation returns [bb, heap].                                     *)
(***************************************************************************)
BitSet(value, k) ==       \* positions of the one bits of a 16-bit value, offset by k
    {k + j : j \in {q \in 0..15 : Bit(value, q) = 1}}

LowByte(bits) ==
    LET b(k) == IF k \in bits THEN Pow2(k) ELSE 0
    IN ((b(0) + b(1)) + (b(2) + b(3))) + ((b(4) + b(5)) + (b(6) + b(7)))

RECURSIVE reverse_bits_loop(_, _, _, _)
reverse_bits_loop(value, bit_count, i, result) ==
    IF i >= bit_count THEN result
    ELSE reverse_bits_loop(value \div 2, bit_count, i + 1, result * 2 + (value % 2))

reverse_bits(value, bit_count) == reverse_bits_loop(value, bit_count, 0, 0)

create_bit_buffer(heap, initial_capacity) ==
    LET a1 == heap_alloc(heap, 8)                      \* sizeof(BitBuffer) > 0
        a2 == heap_alloc(a1.heap, initial_capacity)
    IN IF ~a1.ok THEN [ok |-> FALSE, heap |-> a1.heap, bb |-> <<>>]
       ELSE IF ~a2.ok THEN [ok |-> FALSE, heap |-> a2.heap, bb |-> <<>>]
       ELSE [ok |-> TRUE, heap |-> a2.heap,
             bb |-> [buffer |-> <<>>, capacity |-> initial_capacity,
                     bit_buffer |-> {}, bit_count |-> 0,
                     grow_failed |-> FALSE, dropped |-> FALSE]]

expand_bit_buffer(bb, heap, additional_bytes) ==
    IF Len(bb.buffer) + additional_bytes > bb.capacity
    THEN LET new_capacity == Max2(bb.capacity * 2, Len(bb.buffer) + additional_bytes)
             a == heap_alloc(heap, new_capacity)
         IN IF ~a.ok
            THEN [ok |-> FALSE, heap |-> a.heap, bb |-> [bb EXCEPT !.grow_failed = TRUE]]
            ELSE [ok |-> TRUE, heap |-> a.heap, bb |-> [bb EXCEPT !.capacity = new_capacity]]
    ELSE [ok |-> TRUE, heap |-> heap, bb |-> bb]

\* The while loop of write_bits: move whole bytes from bit_buffer to buffer.
RECURSIVE write_bits_loop(_, _)
write_bits_loop(bb, heap) ==
    IF bb.bit_count < 8 THEN [bb |-> bb, heap |-> heap]
    ELSE LET e == IF Len(bb.buffer) >= bb.capacity
                  THEN expand_bit_buffer(bb, heap, 1)
                  ELSE [ok |-> TRUE, heap |-> heap, bb |-> bb]
         IN IF ~e.ok
            THEN [bb |-> e.bb, heap |-> e.heap]      \* return; the bits stay in bit_buffer
            ELSE LET bb2 == [e.bb EXCEPT !.buffer = Append(@, LowByte(e.bb.bit_buffer)),
                                         !.bit_buffer = {k - 8 : k \in {q \in @ : q >= 8}},
                                         !.bit_count = @ - 8]
                 IN Force(bb2, write_bits_loop(bb2, e.heap))

\* bits << bit_count is undefined for bit_count >= 32; shift_wraps chooses
\* between the two results compilers produce: a count taken modulo 32, or 0.
write_bits(bb, heap, bits, bit_count, shift_wraps) ==
    LET count == IF bb.bit_count < 32 THEN bb.bit_count
                 ELSE IF shift_wraps THEN bb.bit_count % 32 ELSE 32
        shifted == {k \in BitSet(bits, count) : k < 32}
    IN write_bits_loop([bb EXCEPT !.bit_buffer = @ \cup shifted,
                                  !.bit_count = (@ + bit_count) % 256,
                                  !.dropped = @ \/ (bb.bit_count + bit_count > 32)],
                       heap)

flush_bit_buffer(bb, heap) ==
    IF bb.bit_count > 0
    THEN LET e == IF Len(bb.buffer) < bb.capacity
                  THEN [ok |-> TRUE, heap |-> heap, bb |-> bb]
                  ELSE expand_bit_buffer(bb, heap, 1)
         IN [heap |-> e.heap,
             bb |-> [e.bb EXCEPT
                       !.buffer = IF e.ok THEN Append(@, LowByte(bb.bit_buffer)) ELSE @,
                       !.dropped = @ \/ ~e.ok \/ bb.bit_count > 8,
                       !.bit_buffer = {},
                       !.bit_count = 0]]
    ELSE [bb |-> bb, heap |-> heap]

write_bytes(bb, heap, data) ==
    LET f == flush_bit_buffer(bb, heap)
        e == expand_bit_buffer(f.bb, f.heap, Len(data))
    IN IF ~e.ok
       THEN [bb |-> [e.bb EXCEPT !.dropped = TRUE], heap |-> e.heap]
       ELSE [bb |-> [e.bb EXCEPT !.buffer = @ \o data], heap |-> e.heap]

(***************************************************************************)
(* Fixed Huffman codes and the length and distance tables (png.hpp 86-165).*)
(* Arrays are functions on 0..n-1.                                         *)
(***************************************************************************)
init_fixed_literal_length_codes ==
    [i \in 0..285 |->
        IF i <= 143 THEN [code |-> i + 48, bits |-> 8]
        ELSE IF i <= 255 THEN [code |-> (i - 144) + 400, bits |-> 9]
        ELSE IF i <= 279 THEN [code |-> i - 256, bits |-> 7]
        ELSE [code |-> (i - 280) + 192, bits |-> 8]]

init_fixed_distance_codes == [i \in 0..29 |-> [code |-> i, bits |-> 5]]

\* The arrays as declared: HuffmanCode fixed_literal_length_codes[286] and
\* fixed_distance_codes[30].
fixed_literal_length_codes_size == 286
fixed_distance_codes_size == 30

\* The element writes of init_fixed_huffman_codes in loop order: the four
\* literal/length loops run i over 0..143, 144..255, 256..279 and 280..287,
\* the distance loop over 0..29.
init_fixed_huffman_codes ==
    [k \in 1..(288 + 30) |->
        IF k <= 288 THEN [array |-> "fixed_literal_length_codes", index |-> k - 1]
        ELSE [array |-> "fixed_distance_codes", index |-> k - 1 - 288]]

\* A write past the end of an array is undefined: the build decides what it
\* hits.  The tables are then as the loops meant them, or not.
HuffmanOutcomes(writes) ==
    IF \A k \in DOMAIN writes :
          writes[k].index < (IF writes[k].array = "fixed_literal_length_codes"
                             THEN fixed_literal_length_codes_size
                             ELSE fixed_distance_codes_size)
    THEN {"initialized"}
    ELSE {"initialized", "undefined"}

length_table ==
    LET t == << <<3, 0>>, <<4, 0>>, <<5, 0>>, <<6, 0>>, <<7, 0>>, <<8, 0>>, <<9, 0>>, <<10, 0>>,
                <<11, 1>>, <<13, 1>>, <<15, 1>>, <<17, 1>>, <<19, 2>>, <<23, 2>>, <<27, 2>>, <<31, 2>>,
                <<35, 3>>, <<43, 3>>, <<51, 3>>, <<59, 3>>, <<67, 4>>, <<83, 4>>, <<99, 4>>, <<115, 4>>,
                <<131, 5>>, <<163, 5>>, <<195, 5>>, <<227, 5>>, <<258, 0>> >>
    IN [i \in 0..28 |-> [base |-> t[i + 1][1], extra |-> t[i + 1][2]]]

distance_table ==
    LET t == << <<1, 0>>, <<2, 0>>, <<3, 0>>, <<4, 0>>, <<5, 1>>, <<7, 1>>, <<9, 2>>, <<13, 2>>,
                <<17, 3>>, <<25, 3>>, <<33, 4>>, <<49, 4>>, <<65, 5>>, <<97, 5>>, <<129, 6>>, <<193, 6>>,
                <<257, 7>>, <<385, 7>>, <<513, 8>>, <<769, 8>>, <<1025, 9>>, <<1537, 9>>, <<2049, 10>>,
                <<3073, 10>>, <<4097, 11>>, <<6145, 11>>, <<8193, 12>>, <<12289, 12>>, <<16385, 13>>,
                <<24577, 13>> >>
    IN [i \in 0..29 |-> [base |-> t[i + 1][1], extra |-> t[i + 1][2]]]

(***************************************************************************)
(* find_match (png.hpp 551-600).  Positions are 0-based as in the code:    *)
(* data[pos] of the code is At(data, pos).                                 *)
(***************************************************************************)
LZ77_WINDOW_SIZE == 32768
MIN_MATCH == 3
MAX_MATCH == 258

At(data, i) == data[i + 1]

\* The counting loop without the test length < MAX_MATCH.
match_length_at_uncapped(data, i, pos, length) ==
    LET continues(n) ==
            /\ pos + n < Len(data)
            /\ At(data, i + n) = At(data, pos + n)
    IN CHOOSE n \in length..Len(data) :
          /\ ~continues(n)
          /\ \A k \in length..(n - 1) : continues(k)

\* The while loop that counts matching bytes, entered with the count at
\* `length`: it leaves with the first count at which its condition fails.
match_length_at(data, i, pos, length) ==
    LET continues(n) ==
            /\ pos + n < Len(data)
            /\ At(data, i + n) = At(data, pos + n)
            /\ n < MAX_MATCH
    IN CHOOSE n \in length..MAX_MATCH :
          /\ ~continues(n)
          /\ \A k \in length..(n - 1) : continues(k)

\* The for loop from start i on.  The iterations that `continue` because
\* data[i] != data[pos] are taken in one step: the loop resumes at the first
\* start from i on whose byte equals data[pos], and ends if there is none.
RECURSIVE find_match_loop(_, _, _, _, _)
find_match_loop(data, pos, i, max_length, max_distance) ==
    IF ~ \E j \in i..(pos - 1) : At(data, j) = At(data, pos)
    THEN [length |-> max_length, distance |-> max_distance]
    ELSE LET first == CHOOSE j \in i..(pos - 1) :
                         /\ At(data, j) = At(data, pos)
                         /\ \A k \in i..(j - 1) : At(data, k) # At(data, pos)
             length == match_length_at(data, first, pos, 0)
         IN IF length >= MIN_MATCH /\ length > max_length
            THEN IF length = MAX_MATCH
                 THEN [length |-> length, distance |-> pos - first]
                 ELSE find_match_loop(data, pos, first + 1, length, pos - first)
            ELSE find_match_loop(data, pos, first + 1, max_length, max_distance)

\* find_match reporting the distance one too large.
find_match_distance_off_by_one(data, pos) ==
    IF pos + MIN_MATCH > Len(data)
    THEN [found |-> FALSE, length |-> 0, distance |-> 0]
    ELSE LET window_start == IF pos > LZ77_WINDOW_SIZE THEN pos - LZ77_WINDOW_SIZE ELSE 0
             m == find_match_loop(data, pos, window_start, 0, 0)
         IN [found |-> m.length >= MIN_MATCH, length |-> m.length, distance |-> m.distance + 1]

find_match(data, pos) ==
    IF pos + MIN_MATCH > Len(data)
    THEN [found |-> FALSE, length |-> 0, distance |-> 0]
    ELSE LET window_start == IF pos > LZ77_WINDOW_SIZE THEN pos - LZ77_WINDOW_SIZE ELSE 0
             m == find_match_loop(data, pos, window_start, 0, 0)
         IN [found |-> m.length >= MIN_MATCH, length |-> m.length, distance |-> m.distance]

(***************************************************************************)
(* One iteration of the loop of deflate_compress_fixed (png.hpp 613-681):  *)
(* the token for position pos, with the symbols and extra bits it is       *)
(* written as.                                                             *)
(***************************************************************************)
RECURSIVE table_lookup(_, _, _, _)
table_lookup(table, n, value, i) ==       \* first i < n whose range holds value, else n
    IF i >= n THEN n
    ELSE IF value >= table[i].base /\ value <= table[i].base + Pow2(table[i].extra) - 1
    THEN i
    ELSE table_lookup(table, n, value, i + 1)

length_symbol(match_length) ==
    LET i == table_lookup(length_table, 29, match_length, 0)
    IN IF i = 29 THEN [code |-> 0, extra_bits |-> 0, extra_bits_count |-> 0]
       ELSE [code |-> i + 257,
             extra_bits |-> IF length_table[i].extra > 0
                            THEN match_length - length_table[i].base ELSE 0,
             extra_bits_count |-> length_table[i].extra]

distance_symbol(match_distance) ==
    LET i == table_lookup(distance_table, 30, match_distance, 0)
    IN IF i = 30 THEN [code |-> 0, extra_bits |-> 0, extra_bits_count |-> 0]
       ELSE [code |-> i,
             extra_bits |-> IF distance_table[i].extra > 0
                            THEN match_distance - distance_table[i].base ELSE 0,
             extra_bits_count |-> distance_table[i].extra]

deflate_token(data, pos) ==
    LET m == find_match(data, pos)
    IN IF m.found
       THEN [kind |-> "match", length |-> m.length, distance |-> m.distance, literal |-> 0]
       ELSE [kind |-> "literal", length |-> 0, distance |-> 0, literal |-> At(data, pos)]

\* The write_bits calls of one token, in order.
write_symbol(bb, heap, codes, sym, shift_wraps) ==
    write_bits(bb, heap, reverse_bits(codes[sym].code, codes[sym].bits), codes[sym].bits,
               shift_wraps)

write_extra(bb, heap, extra_bits, extra_bits_count, shift_wraps) ==
    IF extra_bits_count > 0
    THEN write_bits(bb, heap, extra_bits, extra_bits_count, shift_wraps)
    ELSE [bb |-> bb, heap |-> heap]

write_token(bb, heap, tok, shift_wraps) ==
    IF tok.kind = "match"
    THEN LET ls == length_symbol(tok.length)
             ds == distance_symbol(tok.distance)
         IN Bind(write_symbol(bb, heap, init_fixed_literal_length_codes, ls.code, shift_wraps),
            LAMBDA w1 :
            Bind(write_extra(w1.bb, w1.heap, ls.extra_bits, ls.extra_bits_count, shift_wraps),
            LAMBDA w2 :
            Bind(write_symbol(w2.bb, w2.heap, init_fixed_distance_codes, ds.code, shift_wraps),
            LAMBDA w3 :
            write_extra(w3.bb, w3.heap, ds.extra_bits, ds.extra_bits_count, shift_wraps))))
    ELSE write_symbol(bb, heap, init_fixed_literal_length_codes, tok.literal, shift_wraps)

\* The advance that moves one byte on after a match too.
token_advance_by_one(tok) == 1

token_advance(tok) == IF tok.kind = "match" THEN tok.length ELSE 1

(***************************************************************************)
(* PNG filters (png.hpp 313-408).  A row is a sequence of row_width bytes; *)
(* prev_row is <<>> for the NULL pointer of the first row.  A filtered row *)
(* is the filter type followed by row_width bytes.                         *)
(***************************************************************************)
PNG_FILTER_NONE == 0
PNG_FILTER_SUB == 1
PNG_FILTER_UP == 2
PNG_FILTER_AVERAGE == 3
PNG_FILTER_PAETH == 4

Abs(n) == IF n < 0 THEN 0 - n ELSE n
U8(n) == n % 256                         \* conversion of an int to uint8_t
I8(b) == IF b >= 128 THEN b - 256 ELSE b \* (int8_t) of a uint8_t

paeth_predictor(a, b, c) ==
    LET p == a + b - c
        pa == Abs(p - a)
        pb == Abs(p - b)
        pc == Abs(p - c)
    IN IF pa <= pb /\ pa <= pc THEN a
       ELSE IF pb <= pc THEN b
       ELSE c

apply_none_filter(row, bytes_per_pixel, row_width) ==
    <<PNG_FILTER_NONE>> \o [i \in 1..row_width |-> At(row, i - 1)]

\* apply_sub_filter subtracting the previous byte instead of the previous pixel's.
apply_sub_filter_previous_byte(row, bytes_per_pixel, row_width) ==
    <<PNG_FILTER_SUB>> \o
    [k \in 1..row_width |->
        LET i == k - 1
        IN IF i < bytes_per_pixel THEN At(row, i)
           ELSE U8(At(row, i) - At(row, i - 1))]

apply_sub_filter(row, bytes_per_pixel, row_width) ==
    <<PNG_FILTER_SUB>> \o
    [k \in 1..row_width |->
        LET i == k - 1
        IN IF i < bytes_per_pixel THEN At(row, i)
           ELSE U8(At(row, i) - At(row, i - bytes_per_pixel))]

apply_up_filter(row, prev_row, bytes_per_pixel, row_width) ==
    <<PNG_FILTER_UP>> \o
    [k \in 1..row_width |->
        LET i == k - 1
        IN U8(At(row, i) - (IF prev_row # <<>> THEN At(prev_row, i) ELSE 0))]

apply_average_filter(row, prev_row, bytes_per_pixel, row_width) ==
    <<PNG_FILTER_AVERAGE>> \o
    [k \in 1..row_width |->
        LET i == k - 1
            a == IF i < bytes_per_pixel THEN 0 ELSE At(row, i - bytes_per_pixel)
            b == IF prev_row # <<>> THEN At(prev_row, i) ELSE 0
        IN U8(At(row, i) - ((a + b) \div 2))]

apply_paeth_filter(row, prev_row, bytes_per_pixel, row_width) ==
    <<PNG_FILTER_PAETH>> \o
    [k \in 1..row_width |->
        LET i == k - 1
            a == IF i < bytes_per_pixel THEN 0 ELSE At(row, i - bytes_per_pixel)
            b == IF prev_row # <<>> THEN At(prev_row, i) ELSE 0
            c == IF prev_row # <<>> /\ i >= bytes_per_pixel
                 THEN At(prev_row, i - bytes_per_pixel) ELSE 0
        IN U8(At(row, i) - paeth_predictor(a, b, c))]

\* filtered_rows[0..4] after the five apply_*_filter calls.
filtered_rows_of(row, prev_row, bytes_per_pixel, row_width) ==
    [f \in 0..4 |->
        CASE f = 0 -> apply_none_filter(row, bytes_per_pixel, row_width)
          [] f = 1 -> apply_sub_filter(row, bytes_per_pixel, row_width)
          [] f = 2 -> apply_up_filter(row, prev_row, bytes_per_pixel, row_width)
          [] f = 3 -> apply_average_filter(row, prev_row, bytes_per_pixel, row_width)
          [] f = 4 -> apply_paeth_filter(row, prev_row, bytes_per_pixel, row_width)]

RECURSIVE abs_sum(_, _, _)
abs_sum(filtered_row, i, row_width) ==          \* sum over i..row_width of abs((int8_t)byte)
    IF i > row_width THEN 0
    ELSE Abs(I8(At(filtered_row, i))) + abs_sum(filtered_row, i + 1, row_width)

\* The selection loop with sum <= min_sum: of equal sums the last one wins.
RECURSIVE best_filter_loop_last_wins(_, _, _, _, _)
best_filter_loop_last_wins(filtered_rows, row_width, f, min_sum, best_filter) ==
    IF f >= 5 THEN best_filter
    ELSE LET sum == abs_sum(filtered_rows[f], 1, row_width)
         IN IF min_sum = -1 \/ sum <= min_sum
            THEN best_filter_loop_last_wins(filtered_rows, row_width, f + 1, sum, f)
            ELSE best_filter_loop_last_wins(filtered_rows, row_width, f + 1, min_sum,
                                            best_filter)

RECURSIVE best_filter_loop(_, _, _, _, _)
best_filter_loop(filtered_rows, row_width, f, min_sum, best_filter) ==
    IF f >= 5 THEN best_filter
    ELSE LET sum == abs_sum(filtered_rows[f], 1, row_width)
         IN IF min_sum = -1 \/ sum < min_sum      \* min_sum = -1 stands for UINT32_MAX
            THEN best_filter_loop(filtered_rows, row_width, f + 1, sum, f)
            ELSE best_filter_loop(filtered_rows, row_width, f + 1, min_sum, best_filter)

select_best_filter(filtered_rows, row_width) ==
    best_filter_loop(filtered_rows, row_width, 0, -1, 0)

(***************************************************************************)
(* deflate_compress_fixed (png.hpp 603-692), one action per loop           *)
(* iteration.                                                              *)
(***************************************************************************)
MaxDeflateLen == 7
DeflateBytes == {97, 200}
DeflateInputs == SeqsUpTo(DeflateBytes, MaxDeflateLen)

NoBitBuffer ==
    [buffer |-> <<>>, capacity |-> 0, bit_buffer |-> {}, bit_count |-> 0,
     grow_failed |-> FALSE, dropped |-> FALSE]

DeflateInit ==
    /\ d_data \in DeflateInputs
    /\ d_pos = 0
    /\ d_tokens = <<>>
    /\ d_output = NoBitBuffer
    /\ d_heap \in HeapPlans(MaxFailAt)
    /\ d_pc = "call"

DeflateIdle ==
    /\ d_data = <<>>
    /\ d_pos = 0
    /\ d_tokens = <<>>
    /\ d_output = NoBitBuffer
    /\ d_heap = [n |-> 0, fail_at |-> 0, persistent |-> FALSE, zero_null |-> FALSE]
    /\ d_pc = "call"

\* create_bit_buffer and the block header BFINAL = 1, BTYPE = 01.
DeflateBegin ==
    /\ d_pc = "call"
    /\ LET c == create_bit_buffer(d_heap, Len(d_data))
       IN IF ~c.ok
          THEN /\ d_pc' = "returned_null"
               /\ d_heap' = c.heap
               /\ UNCHANGED d_output
          ELSE \E shift_wraps \in BOOLEAN :
                 LET w == write_bits(c.bb, c.heap, 3, 3, shift_wraps)
                 IN /\ d_pc' = "loop"
                    /\ d_output' = w.bb
                    /\ d_heap' = w.heap
    /\ UNCHANGED <<d_data, d_pos, d_tokens, magVars, plotsVars, mappedVars, crcVars, encodeVars>>

DeflateStep ==
    /\ d_pc = "loop"
    /\ d_pos < Len(d_data)
    /\ \E shift_wraps \in BOOLEAN :
         LET tok == deflate_token(d_data, d_pos)
             w == write_token(d_output, d_heap, tok, shift_wraps)
         IN /\ d_tokens' = Append(d_tokens, tok)
            /\ d_pos' = d_pos + token_advance(tok)
            /\ d_output' = w.bb
            /\ d_heap' = w.heap
    /\ UNCHANGED <<d_data, d_pc, magVars, plotsVars, mappedVars, crcVars, encodeVars>>

\* The end-of-block symbol 256 and flush_bit_buffer.
DeflateEnd ==
    /\ d_pc = "loop"
    /\ d_pos >= Len(d_data)
    /\ \E shift_wraps \in BOOLEAN :
         LET w == write_symbol(d_output, d_heap, init_fixed_literal_length_codes, 256,
                               shift_wraps)
             f == flush_bit_buffer(w.bb, w.heap)
         IN /\ d_output' = f.bb
            /\ d_heap' = f.heap
    /\ d_pc' = "returned"
    /\ UNCHANGED <<d_data, d_pos, d_tokens, magVars, plotsVars, mappedVars, crcVars, encodeVars>>

(***************************************************************************)
(* The whole of deflate_compress_fixed, as create_idat_chunk calls it.     *)
(***************************************************************************)
BitBuffers ==
    [buffer : Seq(0..255), capacity : Nat, bit_buffer : SUBSET (0..31), bit_count : Nat,
     grow_failed : BOOLEAN, dropped : BOOLEAN]
Heaps == [n : Nat, fail_at : Nat, persistent : BOOLEAN, zero_null : BOOLEAN]

\* while (pos < length), as a recursive function of pos and the output so far.
deflate_loop(data, bb, hp, shift_wraps) ==
    LET loop[pos \in Nat, w \in [bb : BitBuffers, heap : Heaps]] ==
            IF pos >= Len(data) THEN w
            ELSE LET tok == deflate_token(data, pos)
                 IN loop[pos + token_advance(tok), write_token(w.bb, w.heap, tok, shift_wraps)]
    IN loop[0, [bb |-> bb, heap |-> hp]]

deflate_compress_fixed(data, hp, shift_wraps) ==
    LET c == create_bit_buffer(hp, Len(data))
    IN IF ~c.ok THEN [ok |-> FALSE, heap |-> c.heap, bb |-> NoBitBuffer]
       ELSE Bind(write_bits(c.bb, c.heap, 3, 3, shift_wraps),
            LAMBDA h :
            Bind(deflate_loop(data, h.bb, h.heap, shift_wraps),
            LAMBDA l :
            Bind(write_symbol(l.bb, l.heap, init_fixed_literal_length_codes, 256, shift_wraps),
            LAMBDA e :
            Bind(flush_bit_buffer(e.bb, e.heap),
            LAMBDA f : [ok |-> TRUE, heap |-> f.heap, bb |-> f.bb]))))

(***************************************************************************)
(* Chunks (png.hpp 410-548, 694-803).  A chunk is [length, type, data,     *)
(* crc]; type is its four bytes, crc a 32-bit word.                        *)
(***************************************************************************)
PNG_SIGNATURE == <<137, 80, 78, 71, 13, 10, 26, 10>>
PNG_IHDR == <<73, 72, 68, 82>>
PNG_IDAT == <<73, 68, 65, 84>>
PNG_IEND == <<73, 69, 78, 68>>
PNG_COLOR_TYPE_RGB == 2
PNG_COLOR_TYPE_RGBA == 6

Bytes4(w) == <<w[1] \div 256, w[1] % 256, w[2] \div 256, w[2] % 256>>  \* big-endian

NoChunk == [length |-> 0, type |-> <<>>, data |-> <<>>, crc |-> <<0, 0>>]

create_ihdr_chunk(img, hp, table) ==
    LET a1 == heap_alloc(hp, 24)            \* sizeof(PNGChunk)
        a2 == heap_alloc(a1.heap, 13)
        a3 == heap_alloc(a2.heap, 4 + 13)
        data == Bytes4(Word(img.width)) \o Bytes4(Word(img.height)) \o
                <<img.bit_depth, img.color_type, 0, 0, 0>>
    IN IF ~a1.ok THEN [ok |-> FALSE, heap |-> a1.heap, chunk |-> NoChunk]
       ELSE IF ~a2.ok THEN [ok |-> FALSE, heap |-> a2.heap, chunk |-> NoChunk]
       ELSE IF ~a3.ok THEN [ok |-> FALSE, heap |-> a3.heap, chunk |-> NoChunk]
       ELSE [ok |-> TRUE, heap |-> a3.heap,
             chunk |-> [length |-> 13, type |-> PNG_IHDR, data |-> data,
                        crc |-> calculate_crc(table, PNG_IHDR \o data)]]

create_iend_chunk(hp, table) ==
    LET a1 == heap_alloc(hp, 24)
    IN IF ~a1.ok THEN [ok |-> FALSE, heap |-> a1.heap, chunk |-> NoChunk]
       ELSE [ok |-> TRUE, heap |-> a1.heap,
             chunk |-> [length |-> 0, type |-> PNG_IEND, data |-> <<>>,
                        crc |-> calculate_crc(table, PNG_IEND)]]

write_zlib_header(bb, hp) ==
    LET cmf == (7 * 16) + 8
        flg == 2 * 64
        cmf_flg == cmf * 256 + flg
        fcheck == 31 - (cmf_flg % 31)
    IN Bind(write_bytes(bb, hp, <<cmf>>),
            LAMBDA w1 : write_bytes(w1.bb, w1.heap, <<flg + fcheck>>))

write_zlib_footer(bb, hp, adler32) == write_bytes(bb, hp, Bytes4(adler32))

\* Returns [ok, heap, chunk, grow_failed, dropped]; the last two say whether
\* a growth of one of the two bit buffers failed and whether output was lost.
create_idat_chunk(filtered, hp, table, shift_wraps) ==
    LET adler32 == calculate_adler32(filtered)
        z == create_bit_buffer(hp, Len(filtered))
        none(h) == [ok |-> FALSE, heap |-> h, chunk |-> NoChunk,
                    grow_failed |-> FALSE, dropped |-> FALSE]
    IN IF ~z.ok THEN none(z.heap)
       ELSE
       Bind(write_zlib_header(z.bb, z.heap),
       LAMBDA zh :
       Bind(deflate_compress_fixed(filtered, zh.heap, shift_wraps),
       LAMBDA compressed_data :
       IF ~compressed_data.ok THEN none(compressed_data.heap)
       ELSE
       Bind(write_bytes(zh.bb, compressed_data.heap, compressed_data.bb.buffer),
       LAMBDA zc :
       Bind(write_zlib_footer(zc.bb, zc.heap, adler32),
       LAMBDA zlib_data :
          LET length == Len(zlib_data.bb.buffer)
              a1 == heap_alloc(zlib_data.heap, 24)
              a2 == heap_alloc(a1.heap, length)
              a3 == heap_alloc(a2.heap, 4 + length)
          IN IF ~a1.ok THEN none(a1.heap)
             ELSE IF ~a2.ok THEN none(a2.heap)
             ELSE IF ~a3.ok THEN none(a3.heap)
             ELSE [ok |-> TRUE, heap |-> a3.heap,
                   chunk |-> [length |-> length, type |-> PNG_IDAT,
                              data |-> zlib_data.bb.buffer,
                              crc |-> calculate_crc(table, PNG_IDAT \o zlib_data.bb.buffer)],
                   grow_failed |-> zlib_data.bb.grow_failed \/ compressed_data.bb.grow_failed,
                   dropped |-> zlib_data.bb.dropped \/ compressed_data.bb.dropped]))))

\* The four fwrite calls of write_chunk, in order; the data is skipped when
\* length is 0 (chunk->data is never NULL here: a NULL makes the creation fail,
\* except for IEND, whose length is 0).
\* write_chunk writing the type before the length.
chunk_pieces_type_first(c) ==
    IF c.length > 0
    THEN <<c.type, Bytes4(Word(c.length)), c.data, Bytes4(c.crc)>>
    ELSE <<c.type, Bytes4(Word(c.length)), Bytes4(c.crc)>>

chunk_pieces(c) ==
    IF c.length > 0
    THEN <<Bytes4(Word(c.length)), c.type, c.data, Bytes4(c.crc)>>
    ELSE <<Bytes4(Word(c.length)), c.type, Bytes4(c.crc)>>

RECURSIVE Flatten(_, _)
Flatten(pieces, k) ==
    IF k > Len(pieces) THEN <<>> ELSE pieces[k] \o Flatten(pieces, k + 1)

chunk_bytes(c) == Flatten(chunk_pieces(c), 1)

(***************************************************************************)
(* encode_png (png.hpp 806-931), one action per step of the function.      *)
(* fwrite may write only a prefix of what it was given; fopen may fail.    *)
(***************************************************************************)
MaxEncDim == 1          \* width and height of the images encode_png is run on
MaxEncodeFailAt == 30   \* encode_png: the first failing allocation is one of 1..MaxEncodeFailAt

Pixels == << <<255, 0, 0, 255>>, <<0, 0, 255, 255>>, <<128, 127, 1, 200>>, <<3, 250, 130, 0>> >>

\* Bytes per pixel of the buffer the caller supplies for a color type
\* (0 is grayscale: one byte per pixel).
caller_bytes_per_pixel(color_type) ==
    IF color_type = PNG_COLOR_TYPE_RGB THEN 3
    ELSE IF color_type = PNG_COLOR_TYPE_RGBA THEN 4
    ELSE 1

RECURSIVE pixel_bytes(_, _, _, _)
pixel_bytes(px, n, k, bpp) ==        \* the bytes of pixels px[k..n-1], bpp bytes each
    IF k >= n THEN <<>>
    ELSE SubSeq(Pixels[px[k]], 1, bpp) \o pixel_bytes(px, n, k + 1, bpp)

Images(color_types, widths, heights, palette) ==
    UNION {
        {[width |-> w, height |-> h, bit_depth |-> 8, color_type |-> ct,
          data |-> pixel_bytes(px, w * h, 0, caller_bytes_per_pixel(ct))] :
            px \in [0..(w * h - 1) -> palette]} :
        ct \in color_types, w \in widths, h \in heights}

\* Images of one colour, the second pixel of Pixels.
EncodeImages ==
    Images({PNG_COLOR_TYPE_RGB, PNG_COLOR_TYPE_RGBA, 0}, 0..MaxEncDim, 0..MaxEncDim, {2})

bytes_per_pixel_of(img) == IF img.color_type = PNG_COLOR_TYPE_RGB THEN 3 ELSE 4
row_width_of(img) == img.width * bytes_per_pixel_of(img)
filtered_data_size_of(img) == img.height * (1 + row_width_of(img))

\* row = image->data + y * row_width; a byte past the end of the caller's
\* buffer reads as oob.
image_row(img, y, oob) ==
    [k \in 1..row_width_of(img) |->
        LET i == y * row_width_of(img) + k - 1
        IN IF i < Len(img.data) THEN At(img.data, i) ELSE oob]

reads_past_end(img, y) == (y + 1) * row_width_of(img) > Len(img.data)

\* One iteration of the filter loop: the filtered row copied to filtered_data.
filter_row(img, y, oob) ==
    LET row == image_row(img, y, oob)
        prev_row == IF y = 0 THEN <<>> ELSE image_row(img, y - 1, oob)
        filtered_rows == filtered_rows_of(row, prev_row, bytes_per_pixel_of(img), row_width_of(img))
        best_filter == select_best_filter(filtered_rows, row_width_of(img))
    IN filtered_rows[best_filter]

RECURSIVE alloc_all(_, _, _)
alloc_all(hp, sizes, k) ==           \* malloc(sizes[k..]) in order, up to the first failure
    IF k > Len(sizes) THEN [ok |-> TRUE, heap |-> hp]
    ELSE LET a == heap_alloc(hp, sizes[k])
         IN IF ~a.ok THEN [ok |-> FALSE, heap |-> a.heap]
            ELSE alloc_all(a.heap, sizes, k + 1)

NoFile == [opens |-> 0, closes |-> 0, bytes |-> <<>>]
NoLoss == [grow_failed |-> FALSE, dropped |-> FALSE]
NoHeap == [n |-> 0, fail_at |-> 0, persistent |-> FALSE, zero_null |-> FALSE]

EncodeInit ==
    /\ png_image \in EncodeImages
    /\ png_file = NoFile
    /\ png_y = 0
    /\ png_filtered = <<>>
    /\ png_chunk = NoChunk
    /\ png_heap \in HeapPlans(MaxEncodeFailAt)
    /\ png_lost = NoLoss
    /\ png_result = "none"
    /\ png_pc = "start"

EncodeIdle ==
    /\ png_image = [width |-> 0, height |-> 0, bit_depth |-> 8,
                    color_type |-> PNG_COLOR_TYPE_RGBA, data |-> <<>>]
    /\ png_file = NoFile
    /\ png_y = 0
    /\ png_filtered = <<>>
    /\ png_chunk = NoChunk
    /\ png_heap = NoHeap
    /\ png_lost = NoLoss
    /\ png_result = "none"
    /\ png_pc = "start"

\* return false without fclose(file).
FailWithoutClose ==
    /\ png_result' = "false"
    /\ png_pc' = "returned"
    /\ UNCHANGED png_file

\* fclose(file); return false;
CloseAndFail ==
    /\ png_file' = [png_file EXCEPT !.closes = @ + 1]
    /\ png_result' = "false"
    /\ png_pc' = "returned"

\* The same after an fwrite that wrote `bytes` before it failed.
WriteCloseAndFail(bytes) ==
    /\ png_file' = [png_file EXCEPT !.bytes = @ \o bytes, !.closes = @ + 1]
    /\ png_result' = "false"
    /\ png_pc' = "returned"

otherVars == <<magVars, plotsVars, mappedVars, deflateVars, chk_fn, chk_data, chk_result>>

\* init_crc_table(); init_fixed_huffman_codes(); fopen(filename, "wb")
EncodeOpen ==
    /\ png_pc = "start"
    /\ crc_table' = init_crc_table
    /\ \E opened \in BOOLEAN :
         IF opened
         THEN /\ png_file' = [png_file EXCEPT !.opens = @ + 1, !.bytes = <<>>]
              /\ png_pc' = "signature"
              /\ UNCHANGED png_result
         ELSE /\ png_result' = "false"
              /\ png_pc' = "returned"
              /\ UNCHANGED png_file
    /\ UNCHANGED <<png_image, png_y, png_filtered, png_chunk, png_heap, png_lost, otherVars>>

EncodeWriteSignature ==
    /\ png_pc = "signature"
    /\ \E written \in 0..8 :
         IF written = 8
         THEN /\ png_file' = [png_file EXCEPT !.bytes = @ \o PNG_SIGNATURE]
              /\ png_pc' = "ihdr"
              /\ UNCHANGED png_result
         ELSE WriteCloseAndFail(SubSeq(PNG_SIGNATURE, 1, written))
    /\ UNCHANGED <<png_image, png_y, png_filtered, png_chunk, png_heap, png_lost, crc_table,
                   otherVars>>

EncodeCreateIhdr ==
    /\ png_pc = "ihdr"
    /\ LET c == create_ihdr_chunk(png_image, png_heap, crc_table)
       IN /\ png_heap' = c.heap
          /\ IF c.ok
             THEN /\ png_chunk' = c.chunk
                  /\ png_pc' = "write_ihdr"
                  /\ UNCHANGED <<png_file, png_result>>
             ELSE /\ CloseAndFail
                  /\ UNCHANGED png_chunk
    /\ UNCHANGED <<png_image, png_y, png_filtered, png_lost, crc_table, otherVars>>

\* write_chunk(file, chunk) and free_chunk(chunk), for ihdr, idat and iend.
EncodeWriteChunk ==
    /\ png_pc \in {"write_ihdr", "write_idat", "write_iend"}
    /\ LET pieces == chunk_pieces(png_chunk)
       IN \E failing \in 1..(Len(pieces) + 1) :
            IF failing = Len(pieces) + 1
            THEN /\ png_file' = [png_file EXCEPT !.bytes = @ \o chunk_bytes(png_chunk)]
                 /\ png_pc' = CASE png_pc = "write_ihdr" -> "alloc"
                                [] png_pc = "write_idat" -> "iend"
                                [] png_pc = "write_iend" -> "close"
                 /\ UNCHANGED png_result
            ELSE \E written \in 0..(Len(pieces[failing]) - 1) :
                   WriteCloseAndFail(Flatten(SubSeq(pieces, 1, failing - 1), 1)
                                     \o SubSeq(pieces[failing], 1, written))
    /\ UNCHANGED <<png_image, png_y, png_filtered, png_chunk, png_heap, png_lost, crc_table,
                   otherVars>>

\* malloc of filtered_data, of filtered_rows and of the five row buffers.
EncodeAllocFiltered ==
    /\ png_pc = "alloc"
    /\ LET a == alloc_all(png_heap,
                          <<filtered_data_size_of(png_image), 40,
                            1 + row_width_of(png_image), 1 + row_width_of(png_image),
                            1 + row_width_of(png_image), 1 + row_width_of(png_image),
                            1 + row_width_of(png_image)>>, 1)
       IN /\ png_heap' = a.heap
          /\ IF a.ok
             THEN /\ png_pc' = "filter"
                  /\ UNCHANGED <<png_file, png_result>>
             ELSE CloseAndFail
    /\ png_y' = 0
    /\ png_filtered' = <<>>
    /\ UNCHANGED <<png_image, png_chunk, png_lost, crc_table, otherVars>>

\* One iteration of the loop over the rows.  Reading past the end of the
\* caller's buffer is undefined: the process may stop, or any byte is read.
EncodeFilterRow ==
    /\ png_pc = "filter"
    /\ png_y < png_image.height
    /\ \/ /\ \E oob \in {0, 255} :
               png_filtered' = png_filtered \o filter_row(png_image, png_y, oob)
          /\ png_y' = png_y + 1
          /\ UNCHANGED png_pc
       \/ /\ reads_past_end(png_image, png_y)
          /\ png_pc' = "crashed"
          /\ UNCHANGED <<png_y, png_filtered>>
    /\ UNCHANGED <<png_image, png_file, png_chunk, png_heap, png_lost, png_result, crc_table,
                   otherVars>>

\* After the loop: create_idat_chunk(filtered_data, filtered_data_size).
EncodeCreateIdat ==
    /\ png_pc = "filter"
    /\ png_y >= png_image.height
    /\ \E shift_wraps \in BOOLEAN :
         LET c == create_idat_chunk(png_filtered, png_heap, crc_table, shift_wraps)
         IN /\ png_heap' = c.heap
            /\ png_lost' = [grow_failed |-> c.grow_failed, dropped |-> c.dropped]
            /\ IF c.ok
               THEN /\ png_chunk' = c.chunk
                    /\ png_pc' = "write_idat"
                    /\ UNCHANGED <<png_file, png_result>>
               ELSE /\ CloseAndFail
                    /\ UNCHANGED png_chunk
    /\ UNCHANGED <<png_image, png_y, png_filtered, crc_table, otherVars>>

EncodeCreateIend ==
    /\ png_pc = "iend"
    /\ LET c == create_iend_chunk(png_heap, crc_table)
       IN /\ png_heap' = c.heap
          /\ IF c.ok
             THEN /\ png_chunk' = c.chunk
                  /\ png_pc' = "write_iend"
                  /\ UNCHANGED <<png_file, png_result>>
             ELSE /\ CloseAndFail
                  /\ UNCHANGED png_chunk
    /\ UNCHANGED <<png_image, png_y, png_filtered, png_lost, crc_table, otherVars>>

\* fclose(file); return true;
EncodeClose ==
    /\ png_pc = "close"
    /\ png_file' = [png_file EXCEPT !.closes = @ + 1]
    /\ png_result' = "true"
    /\ png_pc' = "returned"
    /\ UNCHANGED <<png_image, png_y, png_filtered, png_chunk, png_heap, png_lost, crc_table,
                   otherVars>>

(***************************************************************************)
(* encode_png at its loop over the rows (png.hpp 871-887), for images of   *)
(* more rows and pixels: the signature and the IHDR chunk are written and  *)
(* the ten allocations made up to there have succeeded.                    *)
(***************************************************************************)
MaxFilterWidth == 2
MaxFilterHeight == 2

\* The images are made of the first and the third pixel of Pixels: two
\* colours for which each of the five filters is the best one of some row.
FilterInit ==
    /\ png_image \in Images({PNG_COLOR_TYPE_RGB, PNG_COLOR_TYPE_RGBA, 0}, 1..MaxFilterWidth,
                            1..MaxFilterHeight, {1, 3})
    /\ crc_table = init_crc_table
    /\ png_chunk = create_ihdr_chunk(png_image, NoHeap, crc_table).chunk
    /\ png_file = [opens |-> 1, closes |-> 0,
                   bytes |-> PNG_SIGNATURE \o chunk_bytes(png_chunk)]
    /\ png_y = 0
    /\ png_filtered = <<>>
    /\ png_heap = [NoHeap EXCEPT !.n = 10]
    /\ png_lost = NoLoss
    /\ png_result = "none"
    /\ png_pc = "filter"
    /\ chk_fn = "none"
    /\ chk_data = <<>>
    /\ chk_result = <<0, 0>>

(***************************************************************************)
(* Color schemes (include/plotz/color_scheme.hpp).  An rgba is a function  *)
(* on 0..3, a list of key colors a function on 0..k-1, a color table a     *)
(* function on 0..4*N-1.  uint8_t(c1 + ratio * (c2 - c1)) with             *)
(* ratio = float(i) / (steps - 1) is computed on exact fractions; up to    *)
(* five steps the single-precision result truncates to the same byte for   *)
(* all channel values.                                                     *)
(***************************************************************************)
ZeroBased(s) == [i \in 0..(Len(s) - 1) |-> s[i + 1]]

white == ZeroBased(<<255, 255, 255, 255>>)
black == ZeroBased(<<0, 0, 0, 255>>)

\* The interpolation with ratio = float(i) / steps, which stops short of c2.
interpolate_color_open(c1, c2, steps) ==
    [b \in 0..(steps * 4 - 1) |->
        LET i == b \div 4
            ch == b % 4
        IN (c1[ch] * steps + i * (c2[ch] - c1[ch])) \div steps]

interpolate_color(c1, c2, steps) ==
    [b \in 0..(steps * 4 - 1) |->
        LET i == b \div 4
            ch == b % 4
        IN (c1[ch] * (steps - 1) + i * (c2[ch] - c1[ch])) \div (steps - 1)]

make_color_scheme(key_colors, steps_between_keys) ==
    LET size == Cardinality(DOMAIN key_colors)
    IN IF size < 2 THEN <<>>
       ELSE LET num_segments == size - 1
                bytes_per_segment == steps_between_keys * 4
                total_bytes == num_segments * bytes_per_segment
            IN [b \in 0..(total_bytes - 1) |->
                   LET i == b \div bytes_per_segment
                   IN interpolate_color(key_colors[i], key_colors[i + 1],
                                        steps_between_keys)[b % bytes_per_segment]]

(***************************************************************************)
(* heatmap (include/plotz/heatmap.hpp).  A stamp is [w, h, buffer]; both   *)
(* buffers are row-major and indexed from 0.  The two nested loops of      *)
(* add_point_with_stamp are unrolled into the sequence of their accesses,  *)
(* in loop order: access k reads stamp_buf[stamp_idx] and writes           *)
(* buffer[buf_idx].  An index that a uint32_t subtraction would wrap is    *)
(* kept as the negative number it stands for; both are outside any buffer. *)
(***************************************************************************)
heatmap_new(width_in, height_in) ==
    [width |-> width_in, height |-> height_in, max_heat |-> 0,
     buffer |-> [i \in 0..(width_in * height_in - 1) |-> 0]]

heatmap_stamp(width, height, data) == [w |-> width, h |-> height, buffer |-> data]

\* The accesses of the loops without the clipping of x1 and y1.
heatmap_stamp_accesses_unclipped(h, x, y, stamp) ==
    LET stamp_w == stamp.w
        stamp_h == stamp.h
        x0 == IF x < stamp_w \div 2 THEN stamp_w \div 2 - x ELSE 0
        y0 == IF y < stamp_h \div 2 THEN stamp_h \div 2 - y ELSE 0
        x1 == stamp_w
        y1 == stamp_h
        cols == IF x1 > x0 THEN x1 - x0 ELSE 0
        rows == IF y1 > y0 THEN y1 - y0 ELSE 0
    IN [k \in 1..(rows * cols) |->
          LET iy == y0 + (k - 1) \div cols
              ix == x0 + ((k - 1) % cols)
              buf_y == (y + iy) - stamp_h \div 2
              buf_line_idx == buf_y * h.width + (x + x0) - stamp_w \div 2
              stamp_line_idx == iy * stamp_w + x0
          IN [ix |-> ix, iy |-> iy,
              stamp_idx |-> stamp_line_idx + (ix - x0),
              buf_idx |-> buf_line_idx + (ix - x0)]]

heatmap_stamp_accesses(h, x, y, stamp) ==
    LET stamp_w == stamp.w
        stamp_h == stamp.h
        x0 == IF x < stamp_w \div 2 THEN stamp_w \div 2 - x ELSE 0
        y0 == IF y < stamp_h \div 2 THEN stamp_h \div 2 - y ELSE 0
        x1 == IF (x + stamp_w \div 2) < h.width
              THEN stamp_w ELSE stamp_w \div 2 + (h.width - x)
        y1 == IF (y + stamp_h \div 2) < h.height
              THEN stamp_h ELSE stamp_h \div 2 + (h.height - y)
        cols == IF x1 > x0 THEN x1 - x0 ELSE 0
        rows == IF y1 > y0 THEN y1 - y0 ELSE 0
    IN [k \in 1..(rows * cols) |->
          LET iy == y0 + (k - 1) \div cols
              ix == x0 + ((k - 1) % cols)
              buf_y == (y + iy) - stamp_h \div 2
              buf_line_idx == buf_y * h.width + (x + x0) - stamp_w \div 2
              stamp_line_idx == iy * stamp_w + x0
          IN [ix |-> ix, iy |-> iy,
              stamp_idx |-> stamp_line_idx + (ix - x0),
              buf_idx |-> buf_line_idx + (ix - x0)]]

\* Every access of the sequence is inside the stamp and inside the buffer.
AccessesInBounds(h, stamp, accesses) ==
    \A k \in DOMAIN accesses :
        /\ accesses[k].stamp_idx \in DOMAIN stamp.buffer
        /\ accesses[k].buf_idx \in DOMAIN h.buffer

\* The loop body, once per access: buffer[buf_line_idx] += stamp_value * weight,
\* then max_heat.  An access outside a buffer is left out here; the action
\* that makes the call treats it as undefined behaviour.
heatmap_apply_accesses(h, stamp, weight, accesses) ==
    LET after[k \in 0..Len(accesses)] ==
            IF k = 0 THEN h
            ELSE LET a == accesses[k]
                     prev == after[k - 1]
                 IN IF a.stamp_idx \in DOMAIN stamp.buffer /\ a.buf_idx \in DOMAIN h.buffer
                    THEN LET sum == prev.buffer[a.buf_idx] + stamp.buffer[a.stamp_idx] * weight
                         IN [prev EXCEPT
                               !.buffer = [prev.buffer EXCEPT ![a.buf_idx] = sum],
                               !.max_heat = IF sum > prev.max_heat THEN sum ELSE prev.max_heat]
                    ELSE prev
    IN after[Len(accesses)]

heatmap_add_point_with_stamp(h, x, y, stamp) ==
    IF x >= h.width \/ y >= h.height THEN h
    ELSE heatmap_apply_accesses(h, stamp, 1, heatmap_stamp_accesses(h, x, y, stamp))

\* The weighted call without the test of the weight.
heatmap_add_weighted_point_with_stamp_any_weight(h, x, y, weight, stamp) ==
    IF x >= h.width \/ y >= h.height THEN h
    ELSE heatmap_apply_accesses(h, stamp, weight, heatmap_stamp_accesses(h, x, y, stamp))

heatmap_add_weighted_point_with_stamp(h, x, y, weight, stamp) ==
    IF x >= h.width \/ y >= h.height \/ weight < 0 THEN h
    ELSE heatmap_apply_accesses(h, stamp, weight, heatmap_stamp_accesses(h, x, y, stamp))

(***************************************************************************)
(* spectrum (include/plotz/spectrum.hpp, src/spectrum.cpp).  buffer and    *)
(* peak_values are functions on 0..num_bins-1.  Of the configuration only  *)
(* peak_decay takes part in the state changes.                             *)
(***************************************************************************)
spectrum_new(bins_in, width_in, height_in, decay) ==
    [num_bins |-> bins_in, width |-> width_in, height |-> height_in,
     max_magnitude |-> FLT_LOWEST, min_magnitude |-> FLT_MAX,
     buffer |-> [i \in 0..(bins_in - 1) |-> 0],
     peak_values |-> [i \in 0..(bins_in - 1) |-> 0],
     peak_decay |-> decay]

\* The peak update with the decay left unclamped.
spectrum_peak_after_unclamped(peak, magnitude_value, peak_decay) ==
    IF magnitude_value > peak THEN magnitude_value
    ELSE IF peak_decay > 0 THEN FloatAdd(peak, 0 - peak_decay)
    ELSE peak

\* The peak update that snaps down to the value at once.
spectrum_peak_after_snapping(peak, magnitude_value, peak_decay) ==
    IF magnitude_value > peak THEN magnitude_value
    ELSE IF peak_decay > 0 THEN magnitude_value
    ELSE peak

\* "Update peak values" of update and update_bin: the new peak_values[i].
spectrum_peak_after(peak, magnitude_value, peak_decay) ==
    IF magnitude_value > peak THEN magnitude_value
    ELSE IF peak_decay > 0
    THEN LET decayed == FloatAdd(peak, 0 - peak_decay)
         IN IF decayed < magnitude_value THEN magnitude_value ELSE decayed
    ELSE peak

\* update(magnitudes), magnitudes a function on 0..n-1
spectrum_update(s, magnitudes) ==
    LET size == Min2(s.num_bins, Cardinality(DOMAIN magnitudes))
        seen == {magnitudes[i] : i \in 0..(size - 1)}
    IN [s EXCEPT
          !.buffer = [i \in DOMAIN s.buffer |->
                         IF i < size THEN magnitudes[i] ELSE s.buffer[i]],
          !.max_magnitude = SetMax({s.max_magnitude} \cup seen),
          !.min_magnitude = SetMin({s.min_magnitude} \cup seen),
          !.peak_values = [i \in DOMAIN s.peak_values |->
                              IF i < size
                              THEN spectrum_peak_after(s.peak_values[i], magnitudes[i],
                                                       s.peak_decay)
                              ELSE s.peak_values[i]]]

spectrum_update_bin(s, bin, magnitude_value) ==
    IF bin >= s.num_bins THEN s
    ELSE [s EXCEPT
            !.buffer = [s.buffer EXCEPT ![bin] = magnitude_value],
            !.max_magnitude = IF magnitude_value > s.max_magnitude
                              THEN magnitude_value ELSE s.max_magnitude,
            !.min_magnitude = IF magnitude_value < s.min_magnitude
                              THEN magnitude_value ELSE s.min_magnitude,
            !.peak_values = [s.peak_values EXCEPT
                                ![bin] = spectrum_peak_after(s.peak_values[bin],
                                                             magnitude_value, s.peak_decay)]]

spectrum_shift_buffer_to_non_negative(s) ==
    IF DOMAIN s.buffer = {} THEN s
    ELSE IF s.min_magnitude < 0
    THEN LET shift == 0 - s.min_magnitude
         IN [s EXCEPT
               !.buffer = [i \in DOMAIN s.buffer |-> FloatAdd(s.buffer[i], shift)],
               !.peak_values = [i \in DOMAIN s.peak_values |->
                                   FloatAdd(s.peak_values[i], shift)],
               !.max_magnitude = FloatAdd(s.max_magnitude, shift),
               !.min_magnitude = 0]
    ELSE s

\* reset without the fill of peak_values.
spectrum_reset_keeping_peaks(s) ==
    [s EXCEPT !.buffer = [i \in DOMAIN s.buffer |-> 0],
              !.max_magnitude = FLT_LOWEST,
              !.min_magnitude = FLT_MAX]

spectrum_reset(s) ==
    [s EXCEPT !.buffer = [i \in DOMAIN s.buffer |-> 0],
              !.peak_values = [i \in DOMAIN s.peak_values |-> 0],
              !.max_magnitude = FLT_LOWEST,
              !.min_magnitude = FLT_MAX]

\* render(colors): the plot after the call and the call of render_saturated
\* it returns the image of, as [buffer, peak_values, saturation].
spectrum_render(s) ==
    LET shifted == spectrum_shift_buffer_to_non_negative(s)
        saturation == IF shifted.max_magnitude > 0 THEN shifted.max_magnitude ELSE 1
    IN [plot |-> shifted,
        image |-> [buffer |-> shifted.buffer, peak_values |-> shifted.peak_values,
                   saturation |-> saturation]]

(***************************************************************************)
(* The shift and render of magnitude_mapped (magnitude.hpp 273-306).       *)
(***************************************************************************)
magnitude_mapped_shift_buffer_to_non_negative(p) ==
    IF DOMAIN p.buffer = {} THEN p
    ELSE IF p.min_magnitude < 0
    THEN LET shift == 0 - p.min_magnitude
         IN [p EXCEPT
               !.buffer = [i \in DOMAIN p.buffer |-> FloatAdd(p.buffer[i], shift)],
               !.max_magnitude = FloatAdd(p.max_magnitude, shift),
               !.min_magnitude = 0]
    ELSE p

(***************************************************************************)
(* magnitude_mapped_grid (magnitude.hpp 360-553): plots_ is a function on  *)
(* 0..plot_count_-1 of magnitude_mapped plots, plot (row, col) at          *)
(* row * grid_size_ + col.                                                 *)
(***************************************************************************)
magnitude_mapped_grid_new(grid_size, input_width, input_height, plot_width, plot_height) ==
    [grid_size |-> grid_size, plot_count |-> grid_size * grid_size,
     input_width |-> input_width, input_height |-> input_height,
     plot_width |-> plot_width, plot_height |-> plot_height,
     global_max_magnitude |-> FLT_LOWEST, global_min_magnitude |-> FLT_MAX,
     plots |-> [i \in 0..(grid_size * grid_size - 1) |->
                   magnitude_mapped_new(input_width, input_height, plot_width, plot_height)]]

grid_add_point(g, row, col, input_x, input_y, magnitude_value) ==
    LET i == row * g.grid_size + col
        p == magnitude_mapped_add_point(g.plots[i], input_x, input_y, magnitude_value)
    IN [g EXCEPT
          !.plots = [g.plots EXCEPT ![i] = p],
          !.global_max_magnitude = Max2(g.global_max_magnitude, p.max_magnitude),
          !.global_min_magnitude = Min2(g.global_min_magnitude, p.min_magnitude)]

\* get_plot(row, col).add_point(input_x, input_y, magnitude_value)
grid_get_plot_add_point(g, row, col, input_x, input_y, magnitude_value) ==
    LET i == row * g.grid_size + col
    IN [g EXCEPT
          !.plots = [g.plots EXCEPT
                        ![i] = magnitude_mapped_add_point(g.plots[i], input_x, input_y,
                                                          magnitude_value)]]

grid_update_global_extrema(g) ==
    [g EXCEPT
       !.global_max_magnitude =
           SetMax({FLT_LOWEST} \cup {g.plots[i].max_magnitude : i \in DOMAIN g.plots}),
       !.global_min_magnitude =
           SetMin({FLT_MAX} \cup {g.plots[i].min_magnitude : i \in DOMAIN g.plots})]

\* The shift that moves the buffers and the global maximum and leaves the
\* minima and the maxima of the plots as they were.
grid_shift_all_buffers_keeping_plot_extrema(g) ==
    IF g.global_min_magnitude < 0
    THEN LET shift == 0 - g.global_min_magnitude
         IN [g EXCEPT
               !.plots = [i \in DOMAIN g.plots |->
                             [g.plots[i] EXCEPT
                                !.buffer = [b \in DOMAIN g.plots[i].buffer |->
                                               FloatAdd(g.plots[i].buffer[b], shift)]]],
               !.global_max_magnitude = FloatAdd(g.global_max_magnitude, shift)]
    ELSE g

grid_shift_all_buffers_to_non_negative(g) ==
    IF g.global_min_magnitude < 0
    THEN LET shift == 0 - g.global_min_magnitude
         IN [g EXCEPT
               !.plots = [i \in DOMAIN g.plots |->
                             [g.plots[i] EXCEPT
                                !.buffer = [b \in DOMAIN g.plots[i].buffer |->
                                               FloatAdd(g.plots[i].buffer[b], shift)],
                                !.max_magnitude = FloatAdd(g.plots[i].max_magnitude, shift),
                                !.min_magnitude = 0]],
               !.global_max_magnitude = FloatAdd(g.global_max_magnitude, shift),
               !.global_min_magnitude = 0]
    ELSE g

grid_reset(g) ==
    [g EXCEPT
       !.plots = [i \in DOMAIN g.plots |-> magnitude_mapped_reset(g.plots[i])],
       !.global_max_magnitude = FLT_LOWEST,
       !.global_min_magnitude = FLT_MAX]

(***************************************************************************)
(* Rendering.  A color table is a function on 0..4*N-1 of bytes, an image  *)
(* a function on 0..4*total_pixels-1.  The color index                     *)
(*     size_t((ncolors - 1) * clamp(val / saturation, 0, 1) + 0.5f)        *)
(* is computed on exact fractions: with v the clamped numerator it is      *)
(* floor((2 * (ncolors - 1) * v + saturation) / (2 * saturation)); for the *)
(* values, saturations and table sizes of the model the float expression   *)
(* truncates to the same integer.                                          *)
(***************************************************************************)
get_color_count(colors) == Cardinality(DOMAIN colors) \div 4

\* The index without the half that rounds to nearest.
color_index_truncating(ncolors, val, saturation) ==
    LET v == IF val < 0 THEN 0 ELSE IF val > saturation THEN saturation ELSE val
        color_idx == ((ncolors - 1) * v) \div saturation
    IN Min2(color_idx, ncolors - 1)

color_index(ncolors, val, saturation) ==
    LET v == IF val < 0 THEN 0 ELSE IF val > saturation THEN saturation ELSE val
        color_idx == (2 * (ncolors - 1) * v + saturation) \div (2 * saturation)
    IN Min2(color_idx, ncolors - 1)

\* The pixel loop shared by the three render_saturated functions.
copy_colors(buffer, total_pixels, colors, ncolors, saturation) ==
    [b \in 0..(total_pixels * 4 - 1) |->
        colors[color_index(ncolors, buffer[b \div 4], saturation) * 4 + (b % 4)]]

(***************************************************************************)
(* render_saturated of spectrum (spectrum.hpp 160-482) for the solid style *)
(* on the transparent background.  Both paths turn the bins into bars      *)
(* [start_x, end_x, val, peak_val] and draw them in order: the bar from    *)
(* the bottom row up, then the peak indicator.  A later write to a pixel   *)
(* replaces an earlier one.  Rows count from the top, row 0 first.         *)
(***************************************************************************)
\* The nominal pixel range [start_x, end_x) of a bin in render_bins_to_pixels,
\* before the bar_width_factor narrowing.
spectrum_bin_range(s, bin) ==
    LET bin_to_pixel_ratio == Float32Div(s.width, s.num_bins)
        start_x == Float32MulTrunc(bin, bin_to_pixel_ratio)
        end_x == Float32MulTrunc(bin + 1, bin_to_pixel_ratio)
    IN IF start_x = end_x /\ end_x < s.width
       THEN [start_x |-> start_x, end_x |-> start_x + 1]
       ELSE [start_x |-> start_x, end_x |-> end_x]

\* The narrowing with the bar put at the left edge of the nominal range.
spectrum_bar_range_left_aligned(s, bin, factor) ==
    LET nominal == spectrum_bin_range(s, bin)
        full_width == nominal.end_x - nominal.start_x
        scaled == Float32MulTrunc(full_width, Float32Div(factor[1], factor[2]))
        bar_width == IF scaled = 0 /\ full_width > 0 THEN 1 ELSE scaled
    IN [start_x |-> nominal.start_x,
        end_x |-> Min2(nominal.start_x + bar_width, s.width)]

\* The drawn pixel range [start_x, end_x) of a bin in render_bins_to_pixels with
\* bar_width_factor < 1: "Adjust for bar width factor" and the clamp to width.
spectrum_bar_range(s, bin, factor) ==
    LET nominal == spectrum_bin_range(s, bin)
        full_width == nominal.end_x - nominal.start_x
        scaled == Float32MulTrunc(full_width, Float32Div(factor[1], factor[2]))
        bar_width == IF scaled = 0 /\ full_width > 0 THEN 1 ELSE scaled
        padding == (full_width - bar_width) \div 2
        start_x == nominal.start_x + padding
    IN [start_x |-> start_x, end_x |-> Min2(start_x + bar_width, s.width)]

\* static_cast<uint32_t>(std::clamp(val / saturation, 0.0f, 1.0f) * height)
spectrum_scaled_height(val, saturation, height) ==
    IF val <= 0 THEN 0
    ELSE IF val >= saturation THEN height
    ELSE Float32MulTrunc(height, Float32Div(val, saturation))

\* The peak position with the product rounded to nearest.
spectrum_peak_pos_rounding(peak_val, saturation, height) ==
    IF peak_val >= saturation THEN 0 - 1
    ELSE height - ((2 * peak_val * height + saturation) \div (2 * saturation)) - 1

\* peak_pos = height - static_cast<uint32_t>(peak_normalized * height) - 1 for
\* peak_normalized > 0.  The subtraction is in uint32_t: the -1 that
\* peak_normalized = 1 gives stands for 2^32 - 1, which no height exceeds.
spectrum_peak_pos(peak_val, saturation, height) ==
    height - spectrum_scaled_height(peak_val, saturation, height) - 1

\* The bars of render_bins_to_pixels, one per bin.
spectrum_bars_of_bins(s, factor) ==
    [bin \in 0..(s.num_bins - 1) |->
        LET nominal == spectrum_bin_range(s, bin)
            range == IF factor[1] < factor[2] THEN spectrum_bar_range(s, bin, factor)
                     ELSE [start_x |-> nominal.start_x,
                           end_x |-> Min2(nominal.end_x, s.width)]
        IN [start_x |-> range.start_x, end_x |-> range.end_x,
            val |-> s.buffer[bin], peak_val |-> s.peak_values[bin]]]

\* The bars of render_pixels_from_bins, one per pixel column: the largest
\* value and peak of the bins of the column, or 0 in the columns left as gaps.
spectrum_bars_of_pixels(s, factor) ==
    LET pixel_to_bin_ratio == Float32Div(s.num_bins, s.width)
    IN [x \in 0..(s.width - 1) |->
           LET start_bin == Float32MulTrunc(x, pixel_to_bin_ratio)
               end_bin == Min2(Float32MulTrunc(x + 1, pixel_to_bin_ratio), s.num_bins)
               bins == start_bin..(end_bin - 1)
               max_val == SetMax({0} \cup {s.buffer[bin] : bin \in bins})
               max_peak == SetMax({0} \cup {s.peak_values[bin] : bin \in bins})
               gap == factor[1] < factor[2] /\ (x % 2) * factor[2] > 2 * factor[1]
           IN [start_x |-> x, end_x |-> x + 1,
               val |-> IF gap THEN 0 ELSE max_val,
               peak_val |-> IF gap THEN 0 ELSE max_peak]]

\* The drawing loops: the color index written last to pixel (x, y), or -1.
spectrum_pixel(s, bars, show_peaks, ncolors, saturation, x, y) ==
    LET covers(i) == bars[i].start_x <= x /\ x < bars[i].end_x
        bar_height(i) == spectrum_scaled_height(bars[i].val, saturation, s.height)
        peak_pos(i) == spectrum_peak_pos(bars[i].peak_val, saturation, s.height)
        draws_bar(i) == covers(i) /\ s.height - bar_height(i) <= y
        draws_peak(i) ==
            /\ show_peaks /\ bars[i].peak_val > 0
            /\ 0 <= peak_pos(i) /\ peak_pos(i) < s.height
            /\ covers(i) /\ y = peak_pos(i)
        writers == {i \in DOMAIN bars : draws_bar(i) \/ draws_peak(i)}
    IN IF writers = {} THEN 0 - 1
       ELSE LET i == SetMax(writers)
            IN IF draws_peak(i) THEN ncolors - 1
               ELSE color_index(ncolors, bars[i].val, saturation)

\* cfg is [show_peaks, bar_width_factor], the factor as <<numerator, denominator>>.
spectrum_render_saturated(s, cfg, colors, saturation) ==
    LET total_pixels == s.width * s.height
        ncolors == get_color_count(colors)
        bars == IF s.num_bins <= s.width
                THEN spectrum_bars_of_bins(s, cfg.bar_width_factor)
                ELSE spectrum_bars_of_pixels(s, cfg.bar_width_factor)
    IN [b \in 0..(total_pixels * 4 - 1) |->
           IF ncolors = 0 THEN 0
           ELSE LET idx == b \div 4
                    color_idx == spectrum_pixel(s, bars, cfg.show_peaks, ncolors,
                                                saturation, idx % s.width,
                                                idx \div s.width)
                IN IF color_idx < 0 THEN 0 ELSE colors[color_idx * 4 + (b % 4)]]

heatmap_render_saturated(h, colors, saturation) ==
    copy_colors(h.buffer, h.width * h.height, colors, get_color_count(colors), saturation)

heatmap_render(h, colors) ==
    LET saturation == IF h.max_heat > 0 THEN h.max_heat ELSE 1
    IN heatmap_render_saturated(h, colors, saturation)

magnitude_render_saturated(p, colors, saturation) ==
    LET total_pixels == p.width * p.height
        ncolors == get_color_count(colors)
    IN IF ncolors = 0 THEN [b \in 0..(total_pixels * 4 - 1) |-> 0]
       ELSE copy_colors(p.buffer, total_pixels, colors, ncolors, saturation)

magnitude_mapped_render_saturated(m, colors, saturation) ==
    LET total_pixels == m.image_width * m.image_height
        ncolors == get_color_count(colors)
    IN IF ncolors = 0 THEN [b \in 0..(total_pixels * 4 - 1) |-> 0]
       ELSE copy_colors(m.buffer, total_pixels, colors, ncolors, saturation)

\* render(colors) of magnitude: the plot after the call and the image returned.
\* This one takes the saturation from max_magnitude as it is before the shift.
magnitude_render_image_saturation_first(p, colors) ==
    LET saturation == IF p.max_magnitude > 0 THEN p.max_magnitude ELSE 1
        shifted == magnitude_shift_buffer_to_non_negative(p)
    IN [plot |-> shifted, image |-> magnitude_render_saturated(shifted, colors, saturation)]

magnitude_render_image(p, colors) ==
    LET shifted == magnitude_shift_buffer_to_non_negative(p)
        saturation == IF shifted.max_magnitude > 0 THEN shifted.max_magnitude ELSE 1
    IN [plot |-> shifted, image |-> magnitude_render_saturated(shifted, colors, saturation)]

magnitude_mapped_render(m, colors) ==
    LET shifted == magnitude_mapped_shift_buffer_to_non_negative(m)
        saturation == IF shifted.max_magnitude > 0 THEN shifted.max_magnitude ELSE 1
    IN [plot |-> shifted,
        image |-> magnitude_mapped_render_saturated(shifted, colors, saturation)]

(***************************************************************************)
(* magnitude_mapped_grid: set_plot, reset through get_plot, and render     *)
(* (magnitude.hpp 403-527).  The copy loops of render are unrolled into    *)
(* the sequence of their writes in loop order (row, col, y, x): write k    *)
(* copies the four bytes at src_idx of the image of plot (row, col) to     *)
(* dst_idx of the combined buffer.                                         *)
(***************************************************************************)
grid_set_plot(g, row, col, p) ==
    grid_update_global_extrema(
        [g EXCEPT !.plots = [g.plots EXCEPT ![row * g.grid_size + col] = p]])

\* get_plot(row, col).reset()
grid_get_plot_reset(g, row, col) ==
    LET i == row * g.grid_size + col
    IN [g EXCEPT !.plots = [g.plots EXCEPT ![i] = magnitude_mapped_reset(g.plots[i])]]

\* The writes with the row stride of one plot in place of total_width.
grid_render_writes_plot_stride(g) ==
    LET per == g.plot_width * g.plot_height
    IN [k \in 1..(g.plot_count * per) |->
          LET t == (k - 1) \div per
              row == t \div g.grid_size
              col == t % g.grid_size
              y == ((k - 1) % per) \div g.plot_width
              x == ((k - 1) % per) % g.plot_width
              start_x == col * g.plot_width
              start_y == row * g.plot_height
          IN [row |-> row, col |-> col, x |-> x, y |-> y,
              src_idx |-> (y * g.plot_width + x) * 4,
              dst_idx |-> ((start_y + y) * g.plot_width + (start_x + x)) * 4]]

grid_render_writes(g) ==
    LET per == g.plot_width * g.plot_height
        total_width == g.plot_width * g.grid_size
    IN [k \in 1..(g.plot_count * per) |->
          LET t == (k - 1) \div per
              row == t \div g.grid_size
              col == t % g.grid_size
              y == ((k - 1) % per) \div g.plot_width
              x == ((k - 1) % per) % g.plot_width
              start_x == col * g.plot_width
              start_y == row * g.plot_height
          IN [row |-> row, col |-> col, x |-> x, y |-> y,
              src_idx |-> (y * g.plot_width + x) * 4,
              dst_idx |-> ((start_y + y) * total_width + (start_x + x)) * 4]]

\* The combined buffer: zeros, then the writes in order, a later write
\* replacing an earlier one to the same place.
grid_combined_buffer(g, images, writes) ==
    LET total_width == g.plot_width * g.grid_size
        total_height == g.plot_height * g.grid_size
    IN [b \in 0..(total_width * total_height * 4 - 1) |->
          LET hits == {k \in DOMAIN writes : writes[k].dst_idx = 4 * (b \div 4)}
          IN IF hits = {} THEN 0
             ELSE LET w == writes[SetMax(hits)]
                  IN images[w.row * g.grid_size + w.col][w.src_idx + (b % 4)]]

\* render(colors): the grid after the call, the saturation, and the image.
grid_render(g, colors) ==
    LET shifted == grid_shift_all_buffers_to_non_negative(grid_update_global_extrema(g))
        saturation == IF shifted.global_max_magnitude > 0
                      THEN shifted.global_max_magnitude ELSE 1
        images == [i \in DOMAIN shifted.plots |->
                      magnitude_mapped_render_saturated(shifted.plots[i], colors, saturation)]
        writes == grid_render_writes(shifted)
    IN [plot |-> shifted, saturation |-> saturation, writes |-> writes,
        image |-> grid_combined_buffer(shifted, images, writes)]

(***************************************************************************)
(* The plots as callable objects.  One object is under study in a          *)
(* behaviour: last.target names it and the others stay as constructed with *)
(* size 0.  last records the call made last: its name op, its arguments    *)
(* args, the object before the call and what the call returned (out; for  *)
(* a stamp call the accesses of its loops).  last.n counts the accumulating*)
(* calls made since construction or the last reset, at most last.limit;    *)
(* last.stamp is the stamp the calls on the heatmap are given.             *)
(***************************************************************************)
NoCall(target, limit) ==
    [target |-> target, limit |-> limit, stamp |-> <<>>, n |-> 0, op |-> "new",
     args |-> <<>>, before |-> <<>>, out |-> <<>>]

Call(op, args, before, out, n) ==
    [target |-> last.target, limit |-> last.limit, stamp |-> last.stamp, n |-> n,
     op |-> op, args |-> args, before |-> before, out |-> out]

PlotsIdle ==
    /\ heat = heatmap_new(0, 0)
    /\ spect = spectrum_new(0, 0, 0, 0)
    /\ grid = magnitude_mapped_grid_new(0, 0, 0, 0, 0)
    /\ last = NoCall("none", 0)

\* A stamp of the given size whose cells hold 1, 2, 3, ... in row-major order.
StampOfSize(w, h) == heatmap_stamp(w, h, [i \in 0..(w * h - 1) |-> i + 1])

Stamps == {StampOfSize(w, h) : w \in 1..MaxStampDim, h \in 1..MaxStampDim}

HeatShapes == {<<1, 1>>, <<2, 1>>, <<2, 2>>}
HeatWeights == {-1, 2}

\* What a call can leave behind whose loops went outside a buffer.
HeatmapOutcomes(h, result) == {result, heatmap_new(h.width, h.height)}

HeatmapAddPointWithStamp ==
    /\ last.target = "heatmap"
    /\ last.n < last.limit
    /\ \E x \in 0..heat.width, y \in 0..heat.height :
          LET stamp == last.stamp
              accesses == IF x >= heat.width \/ y >= heat.height THEN <<>>
                          ELSE heatmap_stamp_accesses(heat, x, y, stamp)
              result == heatmap_add_point_with_stamp(heat, x, y, stamp)
          IN /\ IF AccessesInBounds(heat, stamp, accesses) THEN heat' = result
                ELSE heat' \in HeatmapOutcomes(heat, result)
             /\ last' = Call("add_point_with_stamp", [x |-> x, y |-> y, weight |-> 1,
                                                      stamp |-> stamp],
                             heat, accesses, last.n + 1)
    /\ UNCHANGED <<spect, grid, magVars, mappedVars, crcVars, deflateVars, encodeVars>>

HeatmapAddWeightedPointWithStamp ==
    /\ last.target = "heatmap"
    /\ last.n < last.limit
    /\ \E x \in 0..heat.width, y \in 0..heat.height, weight \in HeatWeights :
          LET stamp == last.stamp
              accesses == IF x >= heat.width \/ y >= heat.height \/ weight < 0 THEN <<>>
                          ELSE heatmap_stamp_accesses(heat, x, y, stamp)
              result == heatmap_add_weighted_point_with_stamp(heat, x, y, weight, stamp)
          IN /\ IF AccessesInBounds(heat, stamp, accesses) THEN heat' = result
                ELSE heat' \in HeatmapOutcomes(heat, result)
             /\ last' = Call("add_weighted_point_with_stamp",
                             [x |-> x, y |-> y, weight |-> weight, stamp |-> stamp],
                             heat, accesses, last.n + 1)
    /\ UNCHANGED <<spect, grid, magVars, mappedVars, crcVars, deflateVars, encodeVars>>

\* The color tables handed to the render functions: one color, and black to
\* white in two and in three steps.
ColorTables ==
    {white} \cup {make_color_scheme(ZeroBased(<<black, white>>), s) : s \in {2, 3}}

Saturations == {1, 2, 3}

HeatmapRenderSaturated ==
    /\ last.target = "heatmap"
    /\ \E colors \in ColorTables, saturation \in Saturations :
          last' = Call("render_saturated", [colors |-> colors, saturation |-> saturation],
                       heat, heatmap_render_saturated(heat, colors, saturation), last.n)
    /\ UNCHANGED <<heat, spect, grid, magVars, mappedVars, crcVars, deflateVars, encodeVars>>

HeatmapRender ==
    /\ last.target = "heatmap"
    /\ \E colors \in ColorTables :
          last' = Call("render", [colors |-> colors], heat, heatmap_render(heat, colors),
                       last.n)
    /\ UNCHANGED <<heat, spect, grid, magVars, mappedVars, crcVars, deflateVars, encodeVars>>

MagShapes == {<<0, 0>>, <<1, 1>>, <<2, 1>>, <<1, 2>>}

MagnitudeAddPoint ==
    /\ last.target = "magnitude"
    /\ last.n < last.limit
    /\ \E x \in 0..plot.width, y \in 0..plot.height, v \in MagValues :
          /\ plot' = magnitude_add_point(plot, x, y, v)
          /\ last' = Call("add_point", [x |-> x, y |-> y, v |-> v], plot, <<>>, last.n + 1)
    /\ UNCHANGED <<plot_calls, heat, spect, grid, mappedVars, crcVars, deflateVars,
                   encodeVars>>

MagnitudeShift ==
    /\ last.target = "magnitude"
    /\ plot' = magnitude_shift_buffer_to_non_negative(plot)
    /\ last' = Call("shift_buffer_to_non_negative", <<>>, plot, <<>>, last.n)
    /\ UNCHANGED <<plot_calls, heat, spect, grid, mappedVars, crcVars, deflateVars,
                   encodeVars>>

MagnitudeRender ==
    /\ last.target = "magnitude"
    /\ \E colors \in ColorTables :
          LET r == magnitude_render_image(plot, colors)
          IN /\ plot' = r.plot
             /\ last' = Call("render", [colors |-> colors], plot, r.image, last.n)
    /\ UNCHANGED <<plot_calls, heat, spect, grid, mappedVars, crcVars, deflateVars,
                   encodeVars>>

MagnitudeRenderSaturated ==
    /\ last.target = "magnitude"
    /\ \E colors \in ColorTables, saturation \in Saturations :
          last' = Call("render_saturated", [colors |-> colors, saturation |-> saturation],
                       plot, magnitude_render_saturated(plot, colors, saturation), last.n)
    /\ UNCHANGED <<plot, plot_calls, heat, spect, grid, mappedVars, crcVars, deflateVars,
                   encodeVars>>

MagnitudeReset ==
    /\ last.target = "magnitude"
    /\ plot' = magnitude_reset(plot)
    /\ last' = Call("reset", <<>>, plot, <<>>, 0)
    /\ UNCHANGED <<plot_calls, heat, spect, grid, mappedVars, crcVars, deflateVars,
                   encodeVars>>

\* Input to image shapes <<input_width, input_height, image_width, image_height>>:
\* a downscale, an upscale, and 11 columns onto 13, where 13.0f / 11 is not exact.
MappedShapes == {<<2, 2, 1, 1>>, <<1, 1, 2, 2>>, <<11, 1, 13, 1>>}

\* The coordinates given to add_point: the first cell, the last cell and the
\* first one past the range.
EdgeCoordinates(size) == {0, size - 1, size} \cap Nat

MagnitudeMappedAddPoint ==
    /\ last.target = "magnitude_mapped"
    /\ last.n < last.limit
    /\ \E x \in EdgeCoordinates(mapped.input_width),
          y \in EdgeCoordinates(mapped.input_height), v \in MagValues :
          /\ mapped' = magnitude_mapped_add_point(mapped, x, y, v)
          /\ last' = Call("add_point", [x |-> x, y |-> y, v |-> v], mapped, <<>>,
                          last.n + 1)
    /\ UNCHANGED <<mapped_calls, heat, spect, grid, magVars, crcVars, deflateVars,
                   encodeVars>>

MagnitudeMappedShift ==
    /\ last.target = "magnitude_mapped"
    /\ mapped' = magnitude_mapped_shift_buffer_to_non_negative(mapped)
    /\ last' = Call("shift_buffer_to_non_negative", <<>>, mapped, <<>>, last.n)
    /\ UNCHANGED <<mapped_calls, heat, spect, grid, magVars, crcVars, deflateVars,
                   encodeVars>>

MagnitudeMappedRender ==
    /\ last.target = "magnitude_mapped"
    /\ \E colors \in ColorTables :
          LET r == magnitude_mapped_render(mapped, colors)
          IN /\ mapped' = r.plot
             /\ last' = Call("render", [colors |-> colors], mapped, r.image, last.n)
    /\ UNCHANGED <<mapped_calls, heat, spect, grid, magVars, crcVars, deflateVars,
                   encodeVars>>

MagnitudeMappedRenderSaturated ==
    /\ last.target = "magnitude_mapped"
    /\ \E colors \in ColorTables, saturation \in Saturations :
          last' = Call("render_saturated", [colors |-> colors, saturation |-> saturation],
                       mapped, magnitude_mapped_render_saturated(mapped, colors, saturation),
                       last.n)
    /\ UNCHANGED <<mapped, mapped_calls, heat, spect, grid, magVars, crcVars, deflateVars,
                   encodeVars>>

MagnitudeMappedReset ==
    /\ last.target = "magnitude_mapped"
    /\ mapped' = magnitude_mapped_reset(mapped)
    /\ last' = Call("reset", <<>>, mapped, <<>>, 0)
    /\ UNCHANGED <<mapped_calls, heat, spect, grid, magVars, crcVars, deflateVars,
                   encodeVars>>

\* <<num_bins, width, height>> and the values of peak_decay
SpectShapes == {<<0, 1, 1>>, <<1, 2, 1>>, <<2, 2, 1>>}
PeakDecays == {-1, 0, 1}
SpectValues == {-1, 0, 2}
GridValues == {-1, 2}

\* The vectors given to update: up to one element more than there are bins.
Magnitudes(num_bins) ==
    UNION {[0..(n - 1) -> SpectValues] : n \in 0..(num_bins + 1)}

SpectrumUpdate ==
    /\ last.target = "spectrum"
    /\ last.n < last.limit
    /\ \E magnitudes \in Magnitudes(spect.num_bins) :
          /\ spect' = spectrum_update(spect, magnitudes)
          /\ last' = Call("update", [magnitudes |-> magnitudes], spect, <<>>, last.n + 1)
    /\ UNCHANGED <<heat, grid, magVars, mappedVars, crcVars, deflateVars, encodeVars>>

SpectrumUpdateBin ==
    /\ last.target = "spectrum"
    /\ last.n < last.limit
    /\ \E bin \in 0..spect.num_bins, v \in SpectValues :
          /\ spect' = spectrum_update_bin(spect, bin, v)
          /\ last' = Call("update_bin", [bin |-> bin, v |-> v], spect, <<>>, last.n + 1)
    /\ UNCHANGED <<heat, grid, magVars, mappedVars, crcVars, deflateVars, encodeVars>>

SpectrumShift ==
    /\ last.target = "spectrum"
    /\ spect' = spectrum_shift_buffer_to_non_negative(spect)
    /\ last' = Call("shift_buffer_to_non_negative", <<>>, spect, <<>>, last.n)
    /\ UNCHANGED <<heat, grid, magVars, mappedVars, crcVars, deflateVars, encodeVars>>

SpectrumRender ==
    /\ last.target = "spectrum"
    /\ LET r == spectrum_render(spect)
       IN /\ spect' = r.plot
          /\ last' = Call("render", <<>>, spect, r.image, last.n)
    /\ UNCHANGED <<heat, grid, magVars, mappedVars, crcVars, deflateVars, encodeVars>>

SpectrumReset ==
    /\ last.target = "spectrum"
    /\ spect' = spectrum_reset(spect)
    /\ last' = Call("reset", <<>>, spect, <<>>, 0)
    /\ UNCHANGED <<heat, grid, magVars, mappedVars, crcVars, deflateVars, encodeVars>>

\* Spectra drawn with their peaks, as <<num_bins, width, height>>: a bin per
\* pixel, bins wider than a pixel, and more bins than pixels.
PeakShapes == {<<1, 1, 2>>, <<2, 5, 3>>, <<2, 2, 4>>, <<3, 2, 2>>}

\* The public configuration a render is called under: the default 0.8f or no
\* narrowing, peaks shown or not.
SpectrumConfigs ==
    [show_peaks : BOOLEAN, bar_width_factor : {<<4, 5>>, <<1, 1>>}]

\* The spectrum is drawn once, after its updates: the call ends the behaviour.
SpectrumRenderSaturated ==
    /\ last.target = "spectrum"
    /\ last.op # "render_saturated"
    /\ \E cfg \in SpectrumConfigs, colors \in ColorTables, saturation \in Saturations :
          last' = Call("render_saturated",
                       [cfg |-> cfg, colors |-> colors, saturation |-> saturation], spect,
                       spectrum_render_saturated(spect, cfg, colors, saturation),
                       last.limit)
    /\ UNCHANGED <<heat, spect, grid, magVars, mappedVars, crcVars, deflateVars,
                   encodeVars>>

\* <<grid_size, input_width, input_height, plot_width, plot_height>>
GridShapes == {<<1, 1, 1, 1, 1>>, <<2, 1, 1, 1, 1>>, <<2, 2, 1, 1, 1>>}

GridAddPoint ==
    /\ last.target = "magnitude_mapped_grid"
    /\ last.n < last.limit
    /\ \E row \in 0..(grid.grid_size - 1), col \in 0..(grid.grid_size - 1),
          x \in 0..(grid.input_width - 1), y \in 0..(grid.input_height - 1),
          v \in GridValues :
          /\ grid' = grid_add_point(grid, row, col, x, y, v)
          /\ last' = Call("add_point", [row |-> row, col |-> col, x |-> x, y |-> y,
                                        v |-> v], grid, <<>>, last.n + 1)
    /\ UNCHANGED <<heat, spect, magVars, mappedVars, crcVars, deflateVars, encodeVars>>

GridGetPlotAddPoint ==
    /\ last.target = "magnitude_mapped_grid"
    /\ last.n < last.limit
    /\ \E row \in 0..(grid.grid_size - 1), col \in 0..(grid.grid_size - 1),
          x \in 0..(grid.input_width - 1), y \in 0..(grid.input_height - 1),
          v \in GridValues :
          /\ grid' = grid_get_plot_add_point(grid, row, col, x, y, v)
          /\ last' = Call("get_plot.add_point", [row |-> row, col |-> col, x |-> x,
                                                 y |-> y, v |-> v], grid, <<>>, last.n + 1)
    /\ UNCHANGED <<heat, spect, magVars, mappedVars, crcVars, deflateVars, encodeVars>>

GridShift ==
    /\ last.target = "magnitude_mapped_grid"
    /\ grid' = grid_shift_all_buffers_to_non_negative(grid)
    /\ last' = Call("shift_all_buffers_to_non_negative", <<>>, grid, <<>>, last.n)
    /\ UNCHANGED <<heat, spect, magVars, mappedVars, crcVars, deflateVars, encodeVars>>

GridReset ==
    /\ last.target = "magnitude_mapped_grid"
    /\ grid' = grid_reset(grid)
    /\ last' = Call("reset", <<>>, grid, <<>>, 0)
    /\ UNCHANGED <<heat, spect, magVars, mappedVars, crcVars, deflateVars, encodeVars>>

\* The plots moved in by set_plot: of the dimensions of the grid's own plots,
\* fresh or holding one value.
GridPlotsToSet ==
    LET fresh == magnitude_mapped_new(grid.input_width, grid.input_height,
                                      grid.plot_width, grid.plot_height)
    IN {fresh} \cup {magnitude_mapped_add_point(fresh, 0, 0, v) : v \in GridValues}

GridSetPlot ==
    /\ last.target = "magnitude_mapped_grid"
    /\ last.n < last.limit
    /\ \E row \in 0..(grid.grid_size - 1), col \in 0..(grid.grid_size - 1),
          p \in GridPlotsToSet :
          /\ grid' = grid_set_plot(grid, row, col, p)
          /\ last' = Call("set_plot", [row |-> row, col |-> col, plot |-> p], grid, <<>>,
                          last.n + 1)
    /\ UNCHANGED <<heat, spect, magVars, mappedVars, crcVars, deflateVars, encodeVars>>

GridGetPlotReset ==
    /\ last.target = "magnitude_mapped_grid"
    /\ last.n < last.limit
    /\ \E row \in 0..(grid.grid_size - 1), col \in 0..(grid.grid_size - 1) :
          /\ grid' = grid_get_plot_reset(grid, row, col)
          /\ last' = Call("get_plot.reset", [row |-> row, col |-> col], grid, <<>>,
                          last.n + 1)
    /\ UNCHANGED <<heat, spect, magVars, mappedVars, crcVars, deflateVars, encodeVars>>

GridRender ==
    /\ last.target = "magnitude_mapped_grid"
    /\ \E colors \in ColorTables :
          LET r == grid_render(grid, colors)
          IN /\ grid' = r.plot
             /\ last' = Call("render", [colors |-> colors], grid,
                             [saturation |-> r.saturation, writes |-> r.writes,
                              image |-> r.image], last.n)
    /\ UNCHANGED <<heat, spect, magVars, mappedVars, crcVars, deflateVars, encodeVars>>

\* Grids for the composite image: one plot, and 2x2 plots of 2x1 pixels.
GridRenderShapes == {<<1, 1, 1, 1, 1>>, <<2, 1, 1, 2, 1>>}

GridInit ==
    /\ \E s \in GridRenderShapes :
          grid = magnitude_mapped_grid_new(s[1], s[2], s[3], s[4], s[5])
    /\ heat = heatmap_new(0, 0)
    /\ spect = spectrum_new(0, 0, 0, 0)
    /\ last = NoCall("magnitude_mapped_grid", MaxPlotsCalls)

(***************************************************************************)
(* make_color_scheme and the bin ranges of the spectrum as callable        *)
(* operations.                                                             *)
(***************************************************************************)
KeyColors == {black, white, ZeroBased(<<200, 100, 7, 0>>), ZeroBased(<<1, 2, 3, 4>>)}

KeyColorLists == UNION {[0..(k - 1) -> KeyColors] : k \in 0..MaxKeys}

MakeColorScheme ==
    /\ last.target = "make_color_scheme"
    /\ \E key_colors \in KeyColorLists, steps \in 2..MaxSteps :
          last' = Call("make_color_scheme", [key_colors |-> key_colors, steps |-> steps],
                       <<>>, make_color_scheme(key_colors, steps), 0)
    /\ UNCHANGED <<heat, spect, grid, magVars, mappedVars, crcVars, deflateVars,
                   encodeVars>>

\* One iteration of the loop over the bins, up to the narrowing.
SpectrumBinRange ==
    /\ last.target = "render_bins_to_pixels"
    /\ \E bin \in 0..(spect.num_bins - 1) :
          last' = Call("bin_range", [bin |-> bin], spect, spectrum_bin_range(spect, bin), 0)
    /\ UNCHANGED <<heat, spect, grid, magVars, mappedVars, crcVars, deflateVars,
                   encodeVars>>

\* The values of bar_width_factor, as <<numerator, denominator>>: the float is
\* static_cast<float>(numerator) / denominator; 0.8f is the default and main.cpp
\* sets 0.9f and 0.7f.
BarWidthFactors == {<<1, 4>>, <<1, 2>>, <<7, 10>>, <<4, 5>>, <<9, 10>>}

\* One iteration of the loop over the bins, up to the drawing.
SpectrumBarRange ==
    /\ last.target = "render_bins_to_pixels"
    /\ last.op = "new"
    /\ \E bin \in 0..(spect.num_bins - 1), factor \in BarWidthFactors :
          last' = Call("bar_range", [bin |-> bin, bar_width_factor |-> factor], spect,
                       spectrum_bar_range(spect, bin, factor), 0)
    /\ UNCHANGED <<heat, spect, grid, magVars, mappedVars, crcVars, deflateVars,
                   encodeVars>>

PlotsInit ==
    \/ /\ \E s \in HeatShapes : heat = heatmap_new(s[1], s[2])
       /\ spect = spectrum_new(0, 0, 0, 0)
       /\ grid = magnitude_mapped_grid_new(0, 0, 0, 0, 0)
       /\ MagIdle /\ MappedIdle
       /\ \E stamp \in Stamps :
             last = [NoCall("heatmap", MaxPlotsCalls) EXCEPT !.stamp = stamp]
    \/ /\ \E s \in MagShapes : plot = magnitude_new(s[1], s[2])
       /\ plot_calls = <<>>
       /\ heat = heatmap_new(0, 0)
       /\ spect = spectrum_new(0, 0, 0, 0)
       /\ grid = magnitude_mapped_grid_new(0, 0, 0, 0, 0)
       /\ MappedIdle
       /\ last = NoCall("magnitude", MaxPlotsCalls)
    \/ /\ \E s \in MappedShapes : mapped = magnitude_mapped_new(s[1], s[2], s[3], s[4])
       /\ mapped_calls = {}
       /\ heat = heatmap_new(0, 0)
       /\ spect = spectrum_new(0, 0, 0, 0)
       /\ grid = magnitude_mapped_grid_new(0, 0, 0, 0, 0)
       /\ MagIdle
       /\ last = NoCall("magnitude_mapped", MaxPlotsCalls)
    \/ /\ \E s \in SpectShapes, decay \in PeakDecays :
             spect = spectrum_new(s[1], s[2], s[3], decay)
       /\ heat = heatmap_new(0, 0)
       /\ grid = magnitude_mapped_grid_new(0, 0, 0, 0, 0)
       /\ MagIdle /\ MappedIdle
       /\ last = NoCall("spectrum", MaxPlotsCalls)
    \/ /\ \E s \in GridShapes : grid = magnitude_mapped_grid_new(s[1], s[2], s[3], s[4], s[5])
       /\ heat = heatmap_new(0, 0)
       /\ spect = spectrum_new(0, 0, 0, 0)
       /\ MagIdle /\ MappedIdle
       /\ last = NoCall("magnitude_mapped_grid", MaxPlotsCalls)

\* A spectrum alone, with room for a peak to decay to the value and stay there.
SpectInit ==
    /\ \E s \in SpectShapes, decay \in PeakDecays :
          spect = spectrum_new(s[1], s[2], s[3], decay)
    /\ heat = heatmap_new(0, 0)
    /\ grid = magnitude_mapped_grid_new(0, 0, 0, 0, 0)
    /\ last = NoCall("spectrum", MaxSpectCalls)

\* A spectrum to draw: an update_bin sets a peak and the next lets it decay.
PeaksInit ==
    /\ \E s \in PeakShapes, decay \in {0, 1} :
          spect = spectrum_new(s[1], s[2], s[3], decay)
    /\ heat = heatmap_new(0, 0)
    /\ grid = magnitude_mapped_grid_new(0, 0, 0, 0, 0)
    /\ last = NoCall("spectrum", MaxPeakCalls)

ColorsInit ==
    /\ heat = heatmap_new(0, 0)
    /\ spect = spectrum_new(0, 0, 0, 0)
    /\ grid = magnitude_mapped_grid_new(0, 0, 0, 0, 0)
    /\ last = NoCall("make_color_scheme", 0)

(***************************************************************************)
(* find_match and the symbol lookups of deflate_compress_fixed as callable *)
(* operations, one call in a behaviour: last.args holds the arguments,     *)
(* last.out the result.                                                    *)
(***************************************************************************)
\* 97 97 97, then n bytes 200, then 97 97 97: the only earlier start that
\* matches the last three bytes is n + 3 bytes back.
FarMatch(n) == [k \in 1..(n + 6) |-> IF k <= 3 \/ k > n + 3 THEN 97 ELSE 200]

\* The pairs <<data, pos>> find_match is called on: every position of every
\* short input; a match exactly LZ77_WINDOW_SIZE back and one a byte
\* farther; a run that continues for more than MAX_MATCH bytes.
MatchProbes ==
    {<<data, pos>> \in DeflateInputs \X (0..(MaxDeflateLen - 1)) : pos < Len(data)}
       \cup {<<FarMatch(LZ77_WINDOW_SIZE - 3), LZ77_WINDOW_SIZE>>,
             <<FarMatch(LZ77_WINDOW_SIZE - 2), LZ77_WINDOW_SIZE + 1>>,
             <<[k \in 1..(MAX_MATCH + 4) |-> 97], 1>>}

InitFixedHuffmanCodes ==
    /\ last.target = "deflate"
    /\ last.op = "new"
    /\ \E tables \in HuffmanOutcomes(init_fixed_huffman_codes) :
          last' = Call("init_fixed_huffman_codes", <<>>, <<>>,
                       [writes |-> init_fixed_huffman_codes, tables |-> tables], 0)
    /\ UNCHANGED <<heat, spect, grid, magVars, mappedVars, crcVars, deflateVars,
                   encodeVars>>

FindMatch ==
    /\ last.target = "deflate"
    /\ last.op = "new"
    /\ \E probe \in MatchProbes :
          last' = Call("find_match", [data |-> probe[1], pos |-> probe[2]], <<>>,
                       find_match(probe[1], probe[2]), 0)
    /\ UNCHANGED <<heat, spect, grid, magVars, mappedVars, crcVars, deflateVars,
                   encodeVars>>

\* The first loop over length_table in deflate_compress_fixed.
LengthSymbol ==
    /\ last.target = "deflate"
    /\ last.op = "new"
    /\ \E match_length \in MIN_MATCH..MAX_MATCH :
          last' = Call("length_symbol", [match_length |-> match_length], <<>>,
                       length_symbol(match_length), 0)
    /\ UNCHANGED <<heat, spect, grid, magVars, mappedVars, crcVars, deflateVars,
                   encodeVars>>

\* The second loop, over distance_table.
DistanceSymbol ==
    /\ last.target = "deflate"
    /\ last.op = "new"
    /\ \E match_distance \in 1..LZ77_WINDOW_SIZE :
          last' = Call("distance_symbol", [match_distance |-> match_distance], <<>>,
                       distance_symbol(match_distance), 0)
    /\ UNCHANGED <<heat, spect, grid, magVars, mappedVars, crcVars, deflateVars,
                   encodeVars>>

LzInit ==
    /\ heat = heatmap_new(0, 0)
    /\ spect = spectrum_new(0, 0, 0, 0)
    /\ grid = magnitude_mapped_grid_new(0, 0, 0, 0, 0)
    /\ last = NoCall("deflate", 0)

\* The expand path: 1 <= num_bins <= width.
BinsInit ==
    /\ \E width \in 1..MaxBinWidth, num_bins \in 1..MaxBinWidth :
          /\ num_bins <= width
          /\ spect = spectrum_new(num_bins, width, 1, 0)
    /\ heat = heatmap_new(0, 0)
    /\ grid = magnitude_mapped_grid_new(0, 0, 0, 0, 0)
    /\ last = NoCall("render_bins_to_pixels", 0)

(***************************************************************************)
(* Specifications.                                                         *)
(***************************************************************************)
NextFilter == EncodeFilterRow
InitFilter ==
    FilterInit /\ MagIdle /\ MappedIdle /\ DeflateIdle /\ PlotsIdle
SpecFilter == InitFilter /\ [][NextFilter]_vars

NextMag == MagAddPoint \/ MagShift \/ MagRender \/ MagReset
InitMag ==
    MagInit /\ MappedIdle /\ CrcIdle /\ DeflateIdle /\ EncodeIdle /\ PlotsIdle
SpecMag == InitMag /\ [][NextMag]_vars

NextDownscale == MappedAddPoint \/ MappedReset
InitDownscale ==
    MappedInit /\ MagIdle /\ CrcIdle /\ DeflateIdle /\ EncodeIdle /\ PlotsIdle
SpecDownscale == InitDownscale /\ [][NextDownscale]_vars

NextChecksum == InitCrcTable \/ CalculateCrc \/ CalculateAdler32
InitChecksum ==
    CrcInit /\ MagIdle /\ MappedIdle /\ DeflateIdle /\ EncodeIdle /\ PlotsIdle
SpecChecksum == InitChecksum /\ [][NextChecksum]_vars

NextDeflate == DeflateBegin \/ DeflateStep \/ DeflateEnd
InitDeflate ==
    DeflateInit /\ MagIdle /\ MappedIdle /\ CrcIdle /\ EncodeIdle /\ PlotsIdle
SpecDeflate == InitDeflate /\ [][NextDeflate]_vars

\* deflate_compress_fixed is one sequential call: once entered, it takes its
\* next step as long as it has one.  This is WF_vars(NextDeflate) with
\* ENABLED <<NextDeflate>>_vars written out: the guards of the three steps,
\* each of which changes d_pc or d_tokens.
DeflateRunning ==
    \/ d_pc = "call"
    \/ d_pc = "loop" /\ d_pos < Len(d_data)
    \/ d_pc = "loop" /\ d_pos >= Len(d_data)
DeflateRuns == []<>(~DeflateRunning) \/ []<><<NextDeflate>>_vars
SpecDeflateRuns == SpecDeflate /\ DeflateRuns

NextEncode ==
    \/ EncodeOpen \/ EncodeWriteSignature \/ EncodeCreateIhdr \/ EncodeWriteChunk
    \/ EncodeAllocFiltered \/ EncodeFilterRow \/ EncodeCreateIdat \/ EncodeCreateIend
    \/ EncodeClose
InitEncode ==
    EncodeInit /\ MagIdle /\ MappedIdle /\ CrcIdle /\ DeflateIdle /\ PlotsIdle
SpecEncode == InitEncode /\ [][NextEncode]_vars

NextPlots ==
    \/ HeatmapAddPointWithStamp \/ HeatmapAddWeightedPointWithStamp
    \/ HeatmapRenderSaturated \/ HeatmapRender
    \/ MagnitudeAddPoint \/ MagnitudeShift \/ MagnitudeRender
    \/ MagnitudeRenderSaturated \/ MagnitudeReset
    \/ MagnitudeMappedAddPoint \/ MagnitudeMappedShift \/ MagnitudeMappedRender
    \/ MagnitudeMappedRenderSaturated \/ MagnitudeMappedReset
    \/ SpectrumUpdate \/ SpectrumUpdateBin \/ SpectrumShift \/ SpectrumRender
    \/ SpectrumReset
    \/ GridAddPoint \/ GridGetPlotAddPoint \/ GridShift \/ GridReset
InitPlots ==
    PlotsInit /\ CrcIdle /\ DeflateIdle /\ EncodeIdle
SpecPlots == InitPlots /\ [][NextPlots]_vars

NextSpectrum ==
    SpectrumUpdate \/ SpectrumUpdateBin \/ SpectrumShift \/ SpectrumRender \/ SpectrumReset
InitSpectrum ==
    SpectInit /\ MagIdle /\ MappedIdle /\ CrcIdle /\ DeflateIdle /\ EncodeIdle
SpecSpectrum == InitSpectrum /\ [][NextSpectrum]_vars

NextGrid ==
    \/ GridAddPoint \/ GridGetPlotAddPoint \/ GridGetPlotReset \/ GridSetPlot
    \/ GridShift \/ GridRender \/ GridReset
InitGrid ==
    GridInit /\ MagIdle /\ MappedIdle /\ CrcIdle /\ DeflateIdle /\ EncodeIdle
SpecGrid == InitGrid /\ [][NextGrid]_vars

NextLz == InitFixedHuffmanCodes \/ FindMatch \/ LengthSymbol \/ DistanceSymbol
InitLz ==
    LzInit /\ MagIdle /\ MappedIdle /\ CrcIdle /\ DeflateIdle /\ EncodeIdle
SpecLz == InitLz /\ [][NextLz]_vars

NextColors == MakeColorScheme
InitColors ==
    ColorsInit /\ MagIdle /\ MappedIdle /\ CrcIdle /\ DeflateIdle /\ EncodeIdle
SpecColors == InitColors /\ [][NextColors]_vars

NextPeaks == SpectrumUpdateBin \/ SpectrumRenderSaturated
InitPeaks ==
    PeaksInit /\ MagIdle /\ MappedIdle /\ CrcIdle /\ DeflateIdle /\ EncodeIdle
SpecPeaks == InitPeaks /\ [][NextPeaks]_vars

NextBins == SpectrumBinRange \/ SpectrumBarRange
InitBins ==
    BinsInit /\ MagIdle /\ MappedIdle /\ CrcIdle /\ DeflateIdle /\ EncodeIdle
SpecBins == InitBins /\ [][NextBins]_vars

(***************************************************************************)
(* Properties.                                                             *)
(***************************************************************************)

\* An LZ77 decoder: a literal is appended; a match copies `length` bytes from
\* `distance` bytes back, one byte at a time, so a copy may overlap its output.
RECURSIVE lz_copy(_, _, _)
lz_copy(out, distance, length) ==
    IF length = 0 THEN out
    ELSE IF distance < 1 \/ distance > Len(out) THEN Append(out, -1)
    ELSE lz_copy(Append(out, out[Len(out) - distance + 1]), distance, length - 1)

RECURSIVE lz_decode(_, _, _)
lz_decode(tokens, k, out) ==
    IF k > Len(tokens) THEN out
    ELSE lz_decode(tokens, k + 1,
                   IF tokens[k].kind = "match"
                   THEN lz_copy(out, tokens[k].distance, tokens[k].length)
                   ELSE Append(out, tokens[k].literal))

(***************************************************************************)
(* C1: decoding the literals and (length, distance) pairs that             *)
(* deflate_compress_fixed emitted reproduces the input bytes scanned so    *)
(* far, and the whole input once the function has returned.                *)
(***************************************************************************)
C1_LzRoundTrip ==
    /\ lz_decode(d_tokens, 1, <<>>) = SubSeq(d_data, 1, d_pos)
    /\ d_pc = "returned" => d_pos = Len(d_data)

\* An input with repetition whose overlapping match was emitted and decoded.
C1_Witness ==
    /\ d_pc = "returned"
    /\ d_data = <<97, 97, 97, 97, 97, 200, 97>>
    /\ Len(d_tokens) = 4
    /\ d_tokens[2].kind = "match" /\ d_tokens[2].distance = 1 /\ d_tokens[2].length = 4

\* The calls since construction or the last reset are two add_point calls
\* on the same in-range cell.
TwoWritesSameCell ==
    /\ Len(plot_calls) = 2
    /\ plot_calls[1].op = "add_point" /\ plot_calls[2].op = "add_point"
    /\ plot_calls[1].x = plot_calls[2].x /\ plot_calls[1].y = plot_calls[2].y
    /\ plot_calls[1].x < plot.width /\ plot_calls[1].y < plot.height

(***************************************************************************)
(* C9: on a fresh or reset magnitude plot, add_point(x, y, V) followed by  *)
(* add_point(x, y, W) at an in-range coordinate leaves exactly W in that   *)
(* cell, max_magnitude = max(V, W), min_magnitude = min(V, W), and every   *)
(* other cell as it was (zero).                                            *)
(***************************************************************************)
C9_Overwrite ==
    TwoWritesSameCell =>
        LET idx == plot_calls[1].y * plot.width + plot_calls[1].x
            V == plot_calls[1].v
            W == plot_calls[2].v
        IN /\ plot.buffer[idx] = W
           /\ plot.max_magnitude = Max2(V, W)
           /\ plot.min_magnitude = Min2(V, W)
           /\ \A i \in DOMAIN plot.buffer : i # idx => plot.buffer[i] = 0

\* A 2x2 plot after add_point(1, 1, 1) and add_point(1, 1, -1).
C9_Witness ==
    /\ TwoWritesSameCell
    /\ plot.width = 2 /\ plot.height = 2
    /\ plot_calls[1].x = 1 /\ plot_calls[1].y = 1
    /\ plot_calls[1].v = 1 /\ plot_calls[2].v = -1
    /\ plot.buffer[plot_calls[1].y * plot.width + plot_calls[1].x] = -1

\* A point was written since construction or the last reset.
PointWritten ==
    \E k \in 1..Len(plot_calls) :
        /\ plot_calls[k].op = "add_point"
        /\ plot_calls[k].x < plot.width /\ plot_calls[k].y < plot.height

(***************************************************************************)
(* C10: once a point was written since construction or the last reset,     *)
(* max_magnitude is the largest and min_magnitude the smallest value held  *)
(* in the buffer, whatever add_point, shift_buffer_to_non_negative and     *)
(* render calls followed.                                                  *)
(***************************************************************************)
C10_ExtremaAreBufferExtrema ==
    PointWritten =>
        /\ plot.max_magnitude = SetMax({plot.buffer[i] : i \in DOMAIN plot.buffer})
        /\ plot.min_magnitude = SetMin({plot.buffer[i] : i \in DOMAIN plot.buffer})

\* add_point(x, y, 1.0) was called once for each cell of a 4x4 input grid
\* mapped onto a 1x1 image, since construction or the last reset.
AllSixteenAdded ==
    /\ mapped.input_width = 4 /\ mapped.input_height = 4
    /\ mapped.image_width = 1 /\ mapped.image_height = 1
    /\ mapped_calls = (0..3) \X (0..3)

(***************************************************************************)
(* C8: a 4x4 input grid mapped onto a 1x1 image, after add_point(x, y, 1.0)*)
(* for each of the 16 input cells, holds 16.0 in its single buffer cell    *)
(* and max_magnitude is 16.0.                                              *)
(***************************************************************************)
C8_DownscaleSums ==
    AllSixteenAdded => mapped.buffer[0] = 16 /\ mapped.max_magnitude = 16

\* CRC-32 by its definition, bit by bit and without a table: the register
\* starts at 0xFFFFFFFF, each byte is XORed into its low end and the register
\* is shifted right eight times, XORing in 0xEDB88320 whenever a one is
\* shifted out; the result is the complement of the register.
crc32_reference(data) ==
    LET bits[j \in Nat, c \in Nat \X Nat] ==
            IF j = 8 THEN c
            ELSE bits[j + 1, IF c[2] % 2 = 1 THEN Xor32(Shr1(c), CrcPoly) ELSE Shr1(c)]
        bytes[i \in Nat, c \in Nat \X Nat] ==
            IF i > Len(data) THEN c
            ELSE bytes[i + 1, bits[0, <<c[1], Xor(c[2], data[i])>>]]
    IN Xor32(bytes[1, AllOnes], AllOnes)

\* Adler-32 in closed form: a = 1 + d1 + ... + dn and
\* b = n + n*d1 + (n-1)*d2 + ... + 1*dn, both modulo 65521.
adler32_reference(data) ==
    LET n == Len(data)
        sum[i \in 0..n] == IF i = 0 THEN 0 ELSE sum[i - 1] + data[i]
        weighted[i \in 0..n] == IF i = 0 THEN 0 ELSE weighted[i - 1] + (n - i + 1) * data[i]
    IN <<(n + weighted[n]) % 65521, (1 + sum[n]) % 65521>>

(***************************************************************************)
(* C4: once init_crc_table has run, calculate_crc returns the standard     *)
(* CRC-32 of its input, 0xCBF43926 for "123456789"; calculate_adler32      *)
(* returns the standard Adler-32, b * 65536 + a.                           *)
(***************************************************************************)
C4_StandardChecksums ==
    /\ chk_fn = "crc" => chk_result = crc32_reference(chk_data)
    /\ chk_fn = "crc" /\ chk_data = Digits => chk_result = <<52212, 14630>>     \* 0xCBF43926
    /\ chk_fn = "adler32" => chk_result = adler32_reference(chk_data)
    /\ chk_fn = "adler32" /\ chk_data = Wikipedia => chk_result = <<4582, 920>> \* 0x11E60398

\* calculate_crc("123456789") was called after init_crc_table and returned 0xCBF43926.
C4_Witness ==
    /\ chk_fn = "crc"
    /\ chk_data = Digits
    /\ chk_result = <<52212, 14630>>

\* A reader of the chunk framing: the types of the complete chunks
\* [length:4][type:4][data:length][crc:4] that follow the 8 signature bytes
\* of a file, and the bytes left after the last complete chunk.
chunk_types(file_bytes) ==
    LET loop[pos \in Nat, types \in Seq(Seq(Nat))] ==
            LET length == file_bytes[pos + 2] * 256 + file_bytes[pos + 3]
            IN IF pos + 11 > Len(file_bytes)
               THEN [types |-> types, rest |-> SubSeq(file_bytes, pos, Len(file_bytes))]
               ELSE IF file_bytes[pos] # 0 \/ file_bytes[pos + 1] # 0
                       \/ pos + 11 + length > Len(file_bytes)
               THEN [types |-> types, rest |-> SubSeq(file_bytes, pos, Len(file_bytes))]
               ELSE loop[pos + 12 + length,
                         Append(types, SubSeq(file_bytes, pos + 4, pos + 7))]
    IN loop[9, <<>>]

ChunkOrder == <<PNG_IHDR, PNG_IDAT, PNG_IEND>>

(***************************************************************************)
(* C3: what encode_png has written to the file is at every moment a        *)
(* beginning of: the 8-byte signature, one IHDR chunk, one IDAT chunk, one *)
(* IEND chunk, in this order; and it is exactly all of that, with nothing  *)
(* after IEND, whenever encode_png returns true.                           *)
(***************************************************************************)
C3_FileLayout ==
    LET b == png_file.bytes
        p == chunk_types(b)
    IN /\ Len(b) <= 8 => b = SubSeq(PNG_SIGNATURE, 1, Len(b))
       /\ Len(b) > 8 =>
             /\ SubSeq(b, 1, 8) = PNG_SIGNATURE
             /\ Len(p.types) <= 3
             /\ p.types = SubSeq(ChunkOrder, 1, Len(p.types))
             /\ Len(p.types) = 3 => p.rest = <<>>
             /\ Len(p.rest) >= 8 => SubSeq(p.rest, 5, 8) = ChunkOrder[Len(p.types) + 1]
       /\ png_result = "true" => p.types = ChunkOrder /\ p.rest = <<>>

\* encode_png returned true for a 1x1 RGBA image and the file holds the
\* signature and three chunks.
C3_Witness ==
    /\ png_result = "true"
    /\ png_image.width = 1 /\ png_image.height = 1
    /\ png_image.color_type = PNG_COLOR_TYPE_RGBA
    /\ Len(chunk_types(png_file.bytes).types) = 3
    /\ Len(png_file.bytes) > 8 + 25 + 12 + 12

(***************************************************************************)
(* C5: for an image whose color type is neither RGB (2) nor RGBA (6),      *)
(* encode_png returns false, and the output file is never opened or        *)
(* written.                                                                *)
(***************************************************************************)
C5_RejectsColorTypeBeforeIO ==
    png_image.color_type \notin {PNG_COLOR_TYPE_RGB, PNG_COLOR_TYPE_RGBA} =>
        /\ png_file.opens = 0
        /\ png_file.bytes = <<>>
        /\ png_pc = "returned" => png_result = "false"

\* A call of malloc or realloc has returned NULL for lack of memory.
AllocationFailed == png_heap.fail_at > 0 /\ png_heap.n >= png_heap.fail_at

(***************************************************************************)
(* C6: encode_png returns true only if no allocation and no growth of a    *)
(* bit buffer failed during the call and no output bits or bytes were      *)
(* dropped.                                                                *)
(***************************************************************************)
C6_AllocationFailureFails ==
    png_result = "true" =>
        /\ ~AllocationFailed
        /\ ~png_lost.grow_failed
        /\ ~png_lost.dropped

(***************************************************************************)
(* C7: the file is opened at most once and never closed more often than    *)
(* opened; when encode_png has returned, a file that was opened has been   *)
(* closed exactly once, on the success path and on every failure path, and *)
(* when the open failed nothing was closed and false was returned.         *)
(***************************************************************************)
C7_ClosedExactlyOnce ==
    /\ png_file.opens <= 1
    /\ png_file.closes <= png_file.opens
    /\ png_pc # "returned" => png_file.closes = 0
    /\ png_pc = "returned" => png_file.closes = png_file.opens
    /\ png_pc = "returned" /\ png_file.opens = 0 => png_result = "false"

\* encode_png returned false after an allocation failed with the file open.
C7_Witness ==
    /\ png_pc = "returned"
    /\ png_result = "false"
    /\ AllocationFailed
    /\ png_file.opens = 1
    /\ png_file.closes = 1

\* The Paeth predictor of the PNG specification.
paeth_standard(a, b, c) ==
    LET p == a + b - c
        pa == Abs(p - a)
        pb == Abs(p - b)
        pc == Abs(p - c)
    IN IF pa <= pb /\ pa <= pc THEN a ELSE IF pb <= pc THEN b ELSE c

\* The reconstruction a PNG decoder applies to one filtered row (the filter
\* type followed by the filtered bytes): each byte plus, modulo 256, the
\* prediction from the reconstructed byte `bpp` to the left (a), the byte
\* above in the previous reconstructed row `prior` (b) and the byte above
\* left (c); a neighbour that does not exist is 0, and prior is <<>> for the
\* first row.
unfilter_row(filtered_row, prior, bpp) ==
    LET type == filtered_row[1]
        n == Len(filtered_row) - 1
        recon[k \in 0..n] ==
            IF k = 0 THEN <<>>
            ELSE LET left == recon[k - 1]
                     a == IF k > bpp THEN left[k - bpp] ELSE 0
                     b == IF prior # <<>> THEN prior[k] ELSE 0
                     c == IF prior # <<>> /\ k > bpp THEN prior[k - bpp] ELSE 0
                     prediction == CASE type = 0 -> 0
                                     [] type = 1 -> a
                                     [] type = 2 -> b
                                     [] type = 3 -> (a + b) \div 2
                                     [] type = 4 -> paeth_standard(a, b, c)
                                     [] OTHER -> -1
                 IN Append(left, (filtered_row[k + 1] + prediction) % 256)
    IN recon[n]

\* Row y of the caller's pixel data, and row y of filtered_data.
raw_row(y) ==
    SubSeq(png_image.data, y * row_width_of(png_image) + 1, (y + 1) * row_width_of(png_image))
filtered_row_of(y) ==
    SubSeq(png_filtered, y * (1 + row_width_of(png_image)) + 1,
           (y + 1) * (1 + row_width_of(png_image)))

(***************************************************************************)
(* C2: for an RGB or RGBA image, every row encode_png has filtered starts  *)
(* with a filter type 0..4, and the standard inverse of that filter,       *)
(* applied to the filtered bytes with the previous raw row as the row      *)
(* above, gives back the row's original bytes.                             *)
(***************************************************************************)
C2_FilterRoundTrip ==
    png_image.color_type \in {PNG_COLOR_TYPE_RGB, PNG_COLOR_TYPE_RGBA} =>
        /\ Len(png_filtered) = png_y * (1 + row_width_of(png_image))
        /\ \A y \in 0..(png_y - 1) :
              /\ filtered_row_of(y)[1] \in 0..4
              /\ unfilter_row(filtered_row_of(y), IF y = 0 THEN <<>> ELSE raw_row(y - 1),
                              bytes_per_pixel_of(png_image)) = raw_row(y)

\* Both rows of a two-row RGBA image are filtered, the first with Sub and
\* the second with Paeth.
C2_Witness ==
    /\ png_image.color_type = PNG_COLOR_TYPE_RGBA
    /\ png_image.height = 2
    /\ png_y = 2
    /\ filtered_row_of(0)[1] = PNG_FILTER_SUB
    /\ filtered_row_of(1)[1] = PNG_FILTER_PAETH

(***************************************************************************)
(* C11: a stamp call with an in-range anchor (and, for the weighted call,  *)
(* a weight that is not negative) reads only cells inside the stamp and    *)
(* writes only cells inside the buffer: stamp cell (ix, iy) is read once   *)
(* and added to buffer cell (x + ix - stamp_w/2, y + iy - stamp_h/2) when  *)
(* that cell lies inside the buffer, and is not read at all otherwise; no  *)
(* other buffer cell changes.                                              *)
(***************************************************************************)
AcceptedStampCall ==
    /\ last.target = "heatmap"
    /\ last.op \in {"add_point_with_stamp", "add_weighted_point_with_stamp"}
    /\ last.args.x < last.before.width
    /\ last.args.y < last.before.height
    /\ last.args.weight >= 0

C11_StampClipping ==
    AcceptedStampCall =>
        LET h == last.before
            stamp == last.args.stamp
            accesses == last.out
            col(ix) == (last.args.x + ix) - (stamp.w \div 2)
            row(iy) == (last.args.y + iy) - (stamp.h \div 2)
            Inside(ix, iy) ==
                /\ 0 <= col(ix) /\ col(ix) < h.width
                /\ 0 <= row(iy) /\ row(iy) < h.height
            Reads(ix, iy) == {k \in DOMAIN accesses : accesses[k].stamp_idx = iy * stamp.w + ix}
        IN /\ \A k \in DOMAIN accesses :
                 /\ accesses[k].stamp_idx \in 0..(stamp.w * stamp.h - 1)
                 /\ accesses[k].buf_idx \in 0..(h.width * h.height - 1)
           /\ \A ix \in 0..(stamp.w - 1), iy \in 0..(stamp.h - 1) :
                 IF Inside(ix, iy)
                 THEN /\ Cardinality(Reads(ix, iy)) = 1
                      /\ \A k \in Reads(ix, iy) :
                            accesses[k].buf_idx = row(iy) * h.width + col(ix)
                 ELSE Reads(ix, iy) = {}
           /\ \A bx \in 0..(h.width - 1), by \in 0..(h.height - 1) :
                 LET ix == (bx - last.args.x) + (stamp.w \div 2)
                     iy == (by - last.args.y) + (stamp.h \div 2)
                     i == by * h.width + bx
                 IN heat.buffer[i] =
                       IF ix \in 0..(stamp.w - 1) /\ iy \in 0..(stamp.h - 1)
                       THEN h.buffer[i] + stamp.buffer[iy * stamp.w + ix] * last.args.weight
                       ELSE h.buffer[i]

\* A 3x3 stamp with weight 2 at corner (0, 0) of a 2x2 heatmap: four of the
\* nine stamp cells land in the buffer, the centre cell (value 5) on cell 0.
C11_Witness ==
    /\ AcceptedStampCall
    /\ last.op = "add_weighted_point_with_stamp"
    /\ last.args.weight = 2
    /\ last.args.stamp.w = 3 /\ last.args.stamp.h = 3
    /\ last.args.x = 0 /\ last.args.y = 0
    /\ last.before = heatmap_new(2, 2)
    /\ Len(last.out) = 4
    /\ heat.buffer[0] = 10
    /\ heat.buffer[3] = 18
    /\ heat.max_heat = 18

(***************************************************************************)
(* C12: an accumulation call with out-of-range coordinates changes         *)
(* nothing: after heatmap add_point* with x >= width or y >= height,       *)
(* magnitude add_point with x >= width or y >= height, magnitude_mapped    *)
(* add_point with input_x >= input_width or input_y >= input_height, and   *)
(* spectrum update_bin with bin >= num_bins, the plot is what it was       *)
(* before the call.                                                        *)
(***************************************************************************)
OutOfRangeCall ==
    \/ /\ last.target = "heatmap"
       /\ last.op \in {"add_point_with_stamp", "add_weighted_point_with_stamp"}
       /\ (last.args.x >= last.before.width \/ last.args.y >= last.before.height)
    \/ /\ last.target = "magnitude"
       /\ last.op = "add_point"
       /\ (last.args.x >= last.before.width \/ last.args.y >= last.before.height)
    \/ /\ last.target = "magnitude_mapped"
       /\ last.op = "add_point"
       /\ (last.args.x >= last.before.input_width \/ last.args.y >= last.before.input_height)
    \/ /\ last.target = "spectrum"
       /\ last.op = "update_bin"
       /\ last.args.bin >= last.before.num_bins

PlotUnderStudy ==
    CASE last.target = "heatmap" -> heat
      [] last.target = "magnitude" -> plot
      [] last.target = "magnitude_mapped" -> mapped
      [] last.target = "spectrum" -> spect
      [] last.target = "magnitude_mapped_grid" -> grid

C12_OutOfRangeIgnored ==
    OutOfRangeCall => PlotUnderStudy = last.before

\* The non-negative shift and the minimum it looks at, for the plot under study.
ShiftTargets == {"magnitude", "magnitude_mapped", "spectrum", "magnitude_mapped_grid"}

ShiftOf(obj) ==
    CASE last.target = "magnitude" -> magnitude_shift_buffer_to_non_negative(obj)
      [] last.target = "magnitude_mapped" -> magnitude_mapped_shift_buffer_to_non_negative(obj)
      [] last.target = "spectrum" -> spectrum_shift_buffer_to_non_negative(obj)
      [] last.target = "magnitude_mapped_grid" -> grid_shift_all_buffers_to_non_negative(obj)

MinOf(obj) ==
    IF last.target = "magnitude_mapped_grid" THEN obj.global_min_magnitude
    ELSE obj.min_magnitude

(***************************************************************************)
(* C13 as stated: in every reachable state of a magnitude,                 *)
(* magnitude_mapped or spectrum plot or of a grid, shifting twice gives    *)
(* the same plot as shifting once, and after one shift min_magnitude (for  *)
(* the grid the global minimum) is 0.                                      *)
(***************************************************************************)
C13_ShiftTwiceMinZero ==
    last.target \in ShiftTargets =>
        LET once == ShiftOf(PlotUnderStudy)
        IN /\ ShiftOf(once) = once
           /\ MinOf(once) = 0

(***************************************************************************)
(* C13 amended: shifting twice gives the same plot as shifting once; after *)
(* one shift min_magnitude (for the grid the global minimum) is 0 if it    *)
(* was negative before and is what it was otherwise, so it is never        *)
(* negative and the second shift changes nothing.                          *)
(***************************************************************************)
C13_ShiftIdempotent ==
    last.target \in ShiftTargets =>
        LET once == ShiftOf(PlotUnderStudy)
        IN /\ ShiftOf(once) = once
           /\ MinOf(once) = (IF MinOf(PlotUnderStudy) < 0 THEN 0 ELSE MinOf(PlotUnderStudy))
           /\ (last.op \in {"shift_buffer_to_non_negative", "shift_all_buffers_to_non_negative"}
                 => /\ PlotUnderStudy = ShiftOf(last.before)
                    /\ ShiftOf(PlotUnderStudy) = PlotUnderStudy)

\* A grid whose global minimum was -1 has been shifted: the minimum is 0 and
\* the maximum went from 2 to 3.
C13_Witness ==
    /\ last.target = "magnitude_mapped_grid"
    /\ last.op = "shift_all_buffers_to_non_negative"
    /\ last.before.global_min_magnitude = -1
    /\ last.before.global_max_magnitude = 2
    /\ grid.global_min_magnitude = 0
    /\ grid.global_max_magnitude = 3
    /\ grid # last.before

\* The call made last gave bin i of the spectrum the value 0.
ZeroUpdateOf(i) ==
    \/ /\ last.op = "update"
       /\ i \in DOMAIN last.args.magnitudes
       /\ last.args.magnitudes[i] = 0
    \/ /\ last.op = "update_bin"
       /\ last.args.bin = i
       /\ last.args.v = 0

(***************************************************************************)
(* C14: in a spectrum with peak_decay d > 0, an update of a bin with value *)
(* 0 lowers the bin's peak by exactly d, but not below 0: a peak P goes    *)
(* P - d, P - 2d, ... down to 0 and stays there; after the update the peak *)
(* is not below the bin's value.                                           *)
(***************************************************************************)
C14_PeakDecay ==
    (last.target = "spectrum" /\ last.op \in {"update", "update_bin"}
        /\ last.before.peak_decay > 0) =>
        \A i \in DOMAIN spect.buffer :
            ZeroUpdateOf(i) =>
                /\ spect.buffer[i] = 0
                /\ spect.peak_values[i] =
                      Max2(last.before.peak_values[i] - last.before.peak_decay, 0)
                /\ spect.peak_values[i] >= spect.buffer[i]

\* The fourth update of a one-bin spectrum with d = 1 that was given 2, 0, 0:
\* the peak went 2, 1, 0 and the update with 0 leaves it at 0.
C14_Witness ==
    /\ last.target = "spectrum"
    /\ last.op = "update"
    /\ last.n = 4
    /\ spect.num_bins = 1
    /\ spect.peak_decay = 1
    /\ ZeroUpdateOf(0)
    /\ last.before.max_magnitude = 2
    /\ last.before.min_magnitude = 0
    /\ last.before.buffer[0] = 0
    /\ last.before.peak_values[0] = 0
    /\ spect.peak_values[0] = 0

(***************************************************************************)
(* C19: in every state of a spectrum reachable by update, update_bin,      *)
(* shift_buffer_to_non_negative, render and reset, with a positive, zero   *)
(* or negative peak_decay and values of either sign, peak_values[i] >=     *)
(* buffer[i] for every bin i.                                              *)
(***************************************************************************)
C19_PeakNotBelowValue ==
    \A i \in DOMAIN spect.buffer : spect.peak_values[i] >= spect.buffer[i]

\* A two-bin spectrum with negative peak_decay was given -1 and 2 and then
\* shifted: the values are 0 and 3, the peaks 1 and 3.
C19_Witness ==
    /\ last.target = "spectrum"
    /\ last.op = "shift_buffer_to_non_negative"
    /\ last.before.min_magnitude = -1
    /\ spect.peak_decay = -1
    /\ spect.num_bins = 2
    /\ spect.buffer[0] = 0 /\ spect.peak_values[0] = 1
    /\ spect.buffer[1] = 3 /\ spect.peak_values[1] = 3

\* clamp(round((N - 1) * clamp(val / saturation, 0, 1)), 0, N - 1) without a
\* division: the k in 0..N-1 with k - 1/2 <= (N - 1) * val / saturation < k + 1/2.
NearestColor(N, val, saturation) ==
    LET v == IF val < 0 THEN 0 ELSE IF val > saturation THEN saturation ELSE val
    IN CHOOSE k \in 0..(N - 1) :
          /\ (2 * k - 1) * saturation <= 2 * (N - 1) * v
          /\ (2 * (N - 1) * v < (2 * k + 1) * saturation \/ k = N - 1)

RenderSaturatedCall ==
    /\ last.target \in {"heatmap", "magnitude", "magnitude_mapped"}
    /\ last.op = "render_saturated"

PixelsOf(obj) ==
    IF last.target = "magnitude_mapped" THEN obj.image_width * obj.image_height
    ELSE obj.width * obj.height

ColumnsOf(range) == {x \in 0..(spect.width - 1) : range.start_x <= x /\ x < range.end_x}

(***************************************************************************)
(* C16: in the expand path (1 <= num_bins <= width) the pixel range of bin *)
(* b before narrowing is [floor(b * width / num_bins),                     *)
(* floor((b + 1) * width / num_bins)); the ranges are at least one pixel   *)
(* wide, pairwise disjoint and cover [0, width), and each is exactly one   *)
(* pixel when num_bins = width.                                            *)
(***************************************************************************)
C16_BinRanges ==
    (last.target = "render_bins_to_pixels" /\ last.op = "bin_range") =>
        LET bins == 0..(spect.num_bins - 1)
            range(b) == spectrum_bin_range(spect, b)
        IN /\ last.out.start_x = (last.args.bin * spect.width) \div spect.num_bins
           /\ last.out.end_x = ((last.args.bin + 1) * spect.width) \div spect.num_bins
           /\ last.out.end_x - last.out.start_x >= 1
           /\ spect.num_bins = spect.width => last.out.end_x - last.out.start_x = 1
           /\ \A a, b \in bins : a # b => ColumnsOf(range(a)) \cap ColumnsOf(range(b)) = {}
           /\ UNION {ColumnsOf(range(b)) : b \in bins} = 0..(spect.width - 1)

\* The object a constructor call with the dimensions and configuration of obj gives.
FreshLike(obj) ==
    CASE last.target = "magnitude" -> magnitude_new(obj.width, obj.height)
      [] last.target = "magnitude_mapped" ->
            magnitude_mapped_new(obj.input_width, obj.input_height,
                                 obj.image_width, obj.image_height)
      [] last.target = "spectrum" ->
            spectrum_new(obj.num_bins, obj.width, obj.height, obj.peak_decay)
      [] last.target = "magnitude_mapped_grid" ->
            magnitude_mapped_grid_new(obj.grid_size, obj.input_width, obj.input_height,
                                      obj.plot_width, obj.plot_height)

AllZero(buffer) == \A i \in DOMAIN buffer : buffer[i] = 0

Cleared(obj) ==
    CASE last.target = "spectrum" ->
            /\ AllZero(obj.buffer) /\ AllZero(obj.peak_values)
            /\ obj.max_magnitude = FLT_LOWEST /\ obj.min_magnitude = FLT_MAX
      [] last.target = "magnitude_mapped_grid" ->
            /\ \A i \in DOMAIN obj.plots :
                  /\ AllZero(obj.plots[i].buffer)
                  /\ obj.plots[i].max_magnitude = FLT_LOWEST
                  /\ obj.plots[i].min_magnitude = FLT_MAX
            /\ obj.global_max_magnitude = FLT_LOWEST
            /\ obj.global_min_magnitude = FLT_MAX
      [] OTHER ->
            /\ AllZero(obj.buffer)
            /\ obj.max_magnitude = FLT_LOWEST /\ obj.min_magnitude = FLT_MAX

(***************************************************************************)
(* C17: after reset() on a magnitude, magnitude_mapped or spectrum plot or *)
(* on a magnitude_mapped_grid every buffer cell, spectrum peak and grid    *)
(* plot is zero and the extrema (global ones included) are the initial     *)
(* sentinel pair: the object equals a freshly constructed one of the same  *)
(* dimensions and configuration.  The first in-range add_point(v) on a     *)
(* magnitude plot in that state gives max_magnitude = min_magnitude = v.   *)
(***************************************************************************)
C17_ResetRestoresFresh ==
    /\ (last.target \in ShiftTargets /\ last.op = "reset") =>
          /\ Cleared(PlotUnderStudy)
          /\ PlotUnderStudy = FreshLike(last.before)
    /\ ( /\ last.target = "magnitude" /\ last.op = "add_point"
         /\ last.args.x < last.before.width /\ last.args.y < last.before.height
         /\ last.before = magnitude_reset(last.before) ) =>
          /\ plot.max_magnitude = last.args.v
          /\ plot.min_magnitude = last.args.v

\* A spectrum whose bins, peaks and extrema were set by an update is reset.
C17_Witness ==
    /\ last.target = "spectrum"
    /\ last.op = "reset"
    /\ \E i \in DOMAIN last.before.buffer :
          last.before.buffer[i] # 0 /\ last.before.peak_values[i] # 0
    /\ last.before.max_magnitude # FLT_LOWEST
    /\ last.before.min_magnitude # FLT_MAX
    /\ spect = spectrum_new(spect.num_bins, spect.width, spect.height, spect.peak_decay)

MakeColorSchemeCall == last.target = "make_color_scheme" /\ last.op = "make_color_scheme"

\* Color number n of a table, as the four bytes it holds.
ColorAt(table, n) == [ch \in 0..3 |-> table[4 * n + ch]]

(***************************************************************************)
(* C18: for k >= 2 key colors and steps_between_keys >= 2,                 *)
(* make_color_scheme returns (k - 1) * steps * 4 bytes; in segment j the   *)
(* first color is key j and the last color is key j + 1, channel for       *)
(* channel, so the table starts with the first key and ends with the last; *)
(* with fewer than 2 key colors the table is empty.                        *)
(***************************************************************************)
C18_ColorSchemeSegments ==
    MakeColorSchemeCall =>
        LET key_colors == last.args.key_colors
            steps == last.args.steps
            k == Cardinality(DOMAIN key_colors)
            table == last.out
        IN IF k < 2 THEN DOMAIN table = {}
           ELSE /\ DOMAIN table = 0..((k - 1) * steps * 4 - 1)
                /\ \A j \in 0..(k - 2) :
                      /\ ColorAt(table, j * steps) = key_colors[j]
                      /\ ColorAt(table, j * steps + steps - 1) = key_colors[j + 1]
                /\ ColorAt(table, 0) = key_colors[0]
                /\ ColorAt(table, (k - 1) * steps - 1) = key_colors[k - 1]

\* Three different keys, the middle one darker in some channels and lighter in
\* others than its neighbours, with three steps between keys.
C18_Witness ==
    /\ MakeColorSchemeCall
    /\ last.args.steps = 3
    /\ Cardinality(DOMAIN last.args.key_colors) = 3
    /\ last.args.key_colors[0] = white
    /\ last.args.key_colors[1] = ZeroBased(<<200, 100, 7, 0>>)
    /\ last.args.key_colors[2] = black
    /\ Cardinality(DOMAIN last.out) = 24
    /\ ColorAt(last.out, 1) = ZeroBased(<<227, 177, 131, 127>>)

RenderCall ==
    /\ last.target \in {"magnitude", "magnitude_mapped", "spectrum"}
    /\ last.op = "render"

\* What render_saturated returns for the plot under study; for the spectrum
\* the call itself.
RenderSaturatedOf(obj, colors, saturation) ==
    CASE last.target = "magnitude" -> magnitude_render_saturated(obj, colors, saturation)
      [] last.target = "magnitude_mapped" ->
            magnitude_mapped_render_saturated(obj, colors, saturation)
      [] last.target = "spectrum" ->
            [buffer |-> obj.buffer, peak_values |-> obj.peak_values,
             saturation |-> saturation]

(***************************************************************************)
(* C20: render(colors) of magnitude, magnitude_mapped and spectrum first   *)
(* applies the non-negative shift and then takes the saturation from the   *)
(* shifted max_magnitude (1 if that is not positive); the image is         *)
(* render_saturated(colors, saturation) of the shifted buffer, in which no *)
(* cell is below 0.                                                        *)
(***************************************************************************)
C20_RenderShiftsFirst ==
    RenderCall =>
        LET shifted == ShiftOf(last.before)
            saturation == IF shifted.max_magnitude > 0 THEN shifted.max_magnitude ELSE 1
            colors == IF last.target = "spectrum" THEN <<>> ELSE last.args.colors
        IN /\ PlotUnderStudy = shifted
           /\ \A i \in DOMAIN PlotUnderStudy.buffer : PlotUnderStudy.buffer[i] >= 0
           /\ last.out = RenderSaturatedOf(shifted, colors, saturation)

\* A magnitude plot with a negative cell, a zero cell and a positive maximum is
\* rendered with three colors: the saturation is the shifted maximum, so the
\* zero cell, shifted up to half of it, gets the middle color and not the last.
C20_Witness ==
    /\ RenderCall
    /\ last.target = "magnitude"
    /\ last.before.min_magnitude < 0
    /\ last.before.max_magnitude > 0
    /\ Cardinality(DOMAIN last.args.colors) = 12
    /\ \E i, j \in DOMAIN last.before.buffer :
          /\ last.before.buffer[i] < 0
          /\ last.before.buffer[j] = 0
          /\ plot.buffer[i] = 0
          /\ plot.buffer[j] >= last.before.max_magnitude
          /\ 2 * plot.buffer[j] = plot.max_magnitude
          /\ last.out[4 * j] = 127
    /\ plot.max_magnitude = last.before.max_magnitude - last.before.min_magnitude
    /\ plot.min_magnitude = 0

GridMutatingCall ==
    /\ last.target = "magnitude_mapped_grid"
    /\ last.op \in {"add_point", "set_plot", "reset", "render", "get_plot.add_point",
                    "get_plot.reset"}

(***************************************************************************)
(* C21: after every mutating call on a magnitude_mapped_grid (add_point,   *)
(* set_plot, reset, render, and add_point or reset on a plot reached       *)
(* through get_plot) the global maximum is the maximum of the plots'       *)
(* max_magnitude and the global minimum the minimum of their               *)
(* min_magnitude.                                                          *)
(***************************************************************************)
C21_GlobalExtremaInSync ==
    GridMutatingCall =>
        /\ grid.global_max_magnitude =
               SetMax({grid.plots[i].max_magnitude : i \in DOMAIN grid.plots})
        /\ grid.global_min_magnitude =
               SetMin({grid.plots[i].min_magnitude : i \in DOMAIN grid.plots})

GridRenderCall == last.target = "magnitude_mapped_grid" /\ last.op = "render"

\* The four bytes of the composite image at pixel (cx, cy).
CompositePixel(image, total_width, cx, cy) ==
    [ch \in 0..3 |-> image[(cy * total_width + cx) * 4 + ch]]

(***************************************************************************)
(* C22: magnitude_mapped_grid::render recomputes the global extrema from   *)
(* all plots; if the global minimum is negative it adds minus that minimum *)
(* to every cell of every plot; it renders every plot with one saturation  *)
(* (the global maximum if > 0, else 1), so equal values in any two plots   *)
(* get the same color; the pixel (x, y) of plot (row, col) is placed at    *)
(* (col * plot_w + x, row * plot_h + y) of the composite image, the tiles  *)
(* neither overlapping nor leaving a composite pixel unwritten.            *)
(***************************************************************************)
C22_GridRender ==
    GridRenderCall =>
        LET before == last.before
            colors == last.args.colors
            N == Cardinality(DOMAIN colors) \div 4
            plots == DOMAIN before.plots
            gmin == SetMin({before.plots[i].min_magnitude : i \in plots})
            gmax == SetMax({before.plots[i].max_magnitude : i \in plots})
            shift == IF gmin < 0 THEN 0 - gmin ELSE 0
            saturation == IF FloatAdd(gmax, shift) > 0 THEN FloatAdd(gmax, shift) ELSE 1
            pw == grid.plot_width
            ph == grid.plot_height
            total_width == pw * grid.grid_size
            total_height == ph * grid.grid_size
            cells == {<<row, col, x, y>> \in
                        (0..(grid.grid_size - 1)) \X (0..(grid.grid_size - 1))
                           \X (0..(pw - 1)) \X (0..(ph - 1)) : TRUE}
            value(o, c) == o.plots[c[1] * grid.grid_size + c[2]].buffer[c[4] * pw + c[3]]
            pixel(c) == CompositePixel(last.out.image, total_width,
                                       c[2] * pw + c[3], c[1] * ph + c[4])
        IN /\ grid.global_min_magnitude = (IF gmin < 0 THEN 0 ELSE gmin)
           /\ grid.global_max_magnitude = FloatAdd(gmax, shift)
           /\ last.out.saturation = saturation
           /\ DOMAIN last.out.image = 0..(total_width * total_height * 4 - 1)
           /\ \A c \in cells :
                 /\ value(grid, c) = value(before, c) + shift
                 /\ pixel(c) = ColorAt(colors, NearestColor(N, value(grid, c), saturation))
                 /\ \A d \in cells : value(before, c) = value(before, d) => pixel(c) = pixel(d)
           /\ Len(last.out.writes) = total_width * total_height
           /\ {last.out.writes[k].dst_idx : k \in DOMAIN last.out.writes}
                 = {4 * q : q \in 0..(total_width * total_height - 1)}

\* A 2x2 grid of 2x1 plots in which plot (0, 1) holds -1, plot (1, 0) holds
\* 2 and the other two hold 0 is rendered with black, grey, white: all
\* cells move up by 1, the saturation is 3, and the four tiles are grey,
\* black, white, grey.
C22_Witness ==
    /\ GridRenderCall
    /\ grid.grid_size = 2 /\ grid.plot_width = 2
    /\ Cardinality(DOMAIN last.args.colors) = 12
    /\ last.before.plots[1].buffer[0] = -1
    /\ last.before.plots[2].buffer[1] = 2
    /\ last.before.plots[0].buffer[0] = 0
    /\ last.out.saturation = 3
    /\ grid.plots[0].buffer[0] = 1 /\ grid.plots[1].buffer[0] = 0
    /\ grid.plots[2].buffer[1] = 3
    /\ CompositePixel(last.out.image, 4, 0, 0)[0] = 127
    /\ CompositePixel(last.out.image, 4, 2, 0)[0] = 0
    /\ CompositePixel(last.out.image, 4, 1, 1)[0] = 255
    /\ CompositePixel(last.out.image, 4, 3, 1)[0] = 127

\* The sum of the absolute values of the data bytes of a filtered row, each
\* byte b standing for the signed value b (below 128) or b - 256.
SignedAbsSum(filtered_row) ==
    LET magnitude(b) == IF b < 128 THEN b ELSE 256 - b
        partial[n \in 1..Len(filtered_row)] ==
            IF n = 1 THEN 0 ELSE partial[n - 1] + magnitude(filtered_row[n])
    IN partial[Len(filtered_row)]

\* Row y of the filtered stream: its type byte and its data bytes.
FilteredRow(y) ==
    SubSeq(png_filtered, y * (1 + row_width_of(png_image)) + 1,
           (y + 1) * (1 + row_width_of(png_image)))

\* The five candidates of row y when the bytes read past the end of the
\* caller's buffer are oob.
CandidatesOf(y, oob) ==
    filtered_rows_of(image_row(png_image, y, oob),
                     IF y = 0 THEN <<>> ELSE image_row(png_image, y - 1, oob),
                     bytes_per_pixel_of(png_image), row_width_of(png_image))

BestOf(cands, t) ==
    /\ \A f \in 0..4 : SignedAbsSum(cands[t]) <= SignedAbsSum(cands[f])
    /\ \A f \in 0..(t - 1) : SignedAbsSum(cands[f]) > SignedAbsSum(cands[t])

(***************************************************************************)
(* C23: for every row, the filter chosen is the one whose filtered data    *)
(* bytes, read as signed 8-bit values (0x80 counting 128), have the        *)
(* smallest sum of absolute values among None, Sub, Up, Average, Paeth; of *)
(* several with the smallest sum the lowest type number is taken; the row  *)
(* in the filtered stream is that type byte followed by that candidate's   *)
(* bytes.                                                                  *)
(***************************************************************************)
C23_BestFilter ==
    (png_pc = "filter") =>
        /\ Len(png_filtered) = png_y * (1 + row_width_of(png_image))
        /\ \A y \in 0..(png_y - 1) :
              \E oob \in {0, 255} :
                 LET cands == CandidatesOf(y, oob)
                     t == FilteredRow(y)[1]
                 IN /\ t \in 0..4
                    /\ FilteredRow(y) = cands[t]
                    /\ BestOf(cands, t)

\* A second row whose best sum is shared by two filters, the lower of which
\* was taken, and one of whose candidates holds the byte 0x80.
C23_Witness ==
    /\ png_pc = "filter"
    /\ png_y = 2
    /\ Len(png_image.data) = 2 * row_width_of(png_image)
    /\ LET cands == CandidatesOf(1, 0)
           t == FilteredRow(1)[1]
       IN /\ t > 0
          /\ FilteredRow(1) = cands[t]
          /\ \E f \in (t + 1)..4 : SignedAbsSum(cands[f]) = SignedAbsSum(cands[t])
          /\ \E f \in 0..4 : \E i \in 2..Len(cands[f]) : cands[f][i] = 128

FindMatchCall == last.target = "deflate" /\ last.op = "find_match"

\* The number of bytes from start i on that equal those from pos on, counted
\* up to the end of the data and at most MAX_MATCH.
EqualRun(data, i, pos) ==
    LET cap == Min2(MAX_MATCH, Len(data) - pos)
    IN CHOOSE n \in 0..cap :
          /\ \A k \in 0..(n - 1) : data[i + k + 1] = data[pos + k + 1]
          /\ (n = cap \/ data[i + n + 1] # data[pos + n + 1])

\* The earlier starts inside the window with at least three equal bytes.
MatchStarts(data, pos) ==
    {i \in 0..(pos - 1) :
        /\ pos - i <= 32768
        /\ pos + 3 <= Len(data)
        /\ \A k \in 0..2 : data[i + k + 1] = data[pos + k + 1]}

(***************************************************************************)
(* C24: at every position pos, find_match reports a match if and only if   *)
(* some earlier start i with 1 <= pos - i <= 32768 has at least 3 bytes    *)
(* equal to those at pos; the reported match is a longest one in that      *)
(* window, capped at 258: 3 <= length <= 258,                              *)
(* 1 <= distance <= min(pos, 32768), pos + length <= data_size, and        *)
(* data[pos + k] = data[pos - distance + k] for every k < length.          *)
(***************************************************************************)
C24_LongestMatchInWindow ==
    FindMatchCall =>
        LET data == last.args.data
            pos == last.args.pos
            m == last.out
            starts == MatchStarts(data, pos)
        IN /\ m.found <=> starts # {}
           /\ m.found =>
                 /\ 3 <= m.length /\ m.length <= 258
                 /\ 1 <= m.distance /\ m.distance <= Min2(pos, 32768)
                 /\ pos + m.length <= Len(data)
                 /\ \A k \in 0..(m.length - 1) :
                       data[pos + k + 1] = data[pos - m.distance + k + 1]
                 /\ \A i \in starts : EqualRun(data, i, pos) <= m.length
                 /\ m.length = EqualRun(data, pos - m.distance, pos)

\* The three long probes: a match found exactly 32768 bytes back, none
\* found when the only candidate is 32769 back, and a run of 261 equal
\* bytes reported with length 258.
C24_Witness ==
    /\ FindMatchCall
    /\ \/ /\ last.args.pos = 32768
          /\ last.out = [found |-> TRUE, length |-> 3, distance |-> 32768]
       \/ /\ last.args.pos = 32769
          /\ ~last.out.found
          /\ \A k \in 0..2 : last.args.data[k + 1] = last.args.data[32769 + k + 1]
       \/ /\ Len(last.args.data) = 262
          /\ last.out = [found |-> TRUE, length |-> 258, distance |-> 1]

\* Symbol i of a base/extra-bits table covers value with the extra-bits
\* value `extra_bits`, and sym is what was emitted for it.
Covers(table, i, value, sym, code) ==
    /\ table[i].base <= value
    /\ value <= table[i].base + Pow2(table[i].extra) - 1
    /\ sym.code = code
    /\ sym.extra_bits_count = table[i].extra
    /\ sym.extra_bits = value - table[i].base

(***************************************************************************)
(* C25: for every match length L in 3..258 the length symbol emitted is    *)
(* 257 + i with base_i <= L <= base_i + 2^extra_i - 1 and extra-bits value *)
(* L - base_i, where symbol 284 covers only 227..257 and L = 258 is        *)
(* emitted as symbol 285 with no extra bits; for every distance D in       *)
(* 1..32768 the distance symbol is j with                                  *)
(* base_j <= D <= base_j + 2^extra_j - 1 and extra-bits value D - base_j.  *)
(***************************************************************************)
C25_SymbolsFollowTables ==
    /\ (last.target = "deflate" /\ last.op = "length_symbol") =>
          LET L == last.args.match_length
          IN IF L = 258
             THEN /\ last.out.code = 285
                  /\ last.out.extra_bits_count = 0
                  /\ last.out.extra_bits = 0
             ELSE \E i \in 0..27 : Covers(length_table, i, L, last.out, 257 + i)
    /\ (last.target = "deflate" /\ last.op = "distance_symbol") =>
          \E j \in 0..29 : Covers(distance_table, j, last.args.match_distance, last.out, j)

BarRangeCall == last.target = "render_bins_to_pixels" /\ last.op = "bar_range"

\* What a bar_range call left undrawn of the nominal range of its bin.
NominalWidth ==
    LET nominal == spectrum_bin_range(spect, last.args.bin)
    IN nominal.end_x - nominal.start_x
UndrawnLeft == last.out.start_x - spectrum_bin_range(spect, last.args.bin).start_x
UndrawnRight == spectrum_bin_range(spect, last.args.bin).end_x - last.out.end_x
BarWidthOf ==
    Max2(1, (NominalWidth * last.args.bar_width_factor[1])
                \div last.args.bar_width_factor[2])

(***************************************************************************)
(* C27 as stated: in the expand path with bar_width_factor < 1 the drawn   *)
(* range of a bin lies inside its nominal range and the same number of     *)
(* pixels, (full_width - bar_width) / 2 with                               *)
(* bar_width = max(1, floor(full_width * bar_width_factor)), is left       *)
(* undrawn on the left and on the right.                                   *)
(***************************************************************************)
C27_TrimmedSymmetrically ==
    BarRangeCall =>
        /\ UndrawnLeft >= 0 /\ UndrawnRight >= 0
        /\ last.out.end_x - last.out.start_x = BarWidthOf
        /\ UndrawnLeft = (NominalWidth - BarWidthOf) \div 2
        /\ UndrawnRight = UndrawnLeft

(***************************************************************************)
(* C27 amended: the drawn range lies inside the nominal range, is          *)
(* bar_width = max(1, floor(full_width * bar_width_factor)) pixels wide,   *)
(* and leaves floor((full_width - bar_width) / 2) pixels undrawn on the    *)
(* left and the rest on the right: as many as on the left when             *)
(* full_width - bar_width is even, one more when it is odd.                *)
(***************************************************************************)
C27_TrimmedWithinOnePixel ==
    BarRangeCall =>
        /\ UndrawnLeft >= 0 /\ UndrawnRight >= 0
        /\ last.out.end_x - last.out.start_x = BarWidthOf
        /\ UndrawnLeft = (NominalWidth - BarWidthOf) \div 2
        /\ UndrawnRight = (NominalWidth - BarWidthOf) - UndrawnLeft
        /\ UndrawnRight - UndrawnLeft = (NominalWidth - BarWidthOf) % 2

\* A bin four pixels wide drawn with the factor 1/4: one pixel, with one
\* undrawn on its left and two on its right.
C27_Witness ==
    /\ BarRangeCall
    /\ NominalWidth = 4
    /\ last.args.bar_width_factor = <<1, 4>>
    /\ last.out.end_x - last.out.start_x = 1
    /\ UndrawnLeft = 1 /\ UndrawnRight = 2

SpectrumRenderSaturatedCall == last.target = "spectrum" /\ last.op = "render_saturated"

\* The bars a render_saturated call drew, and what it left at pixel (x, y).
BarsDrawn ==
    IF spect.num_bins <= spect.width
    THEN spectrum_bars_of_bins(spect, last.args.cfg.bar_width_factor)
    ELSE spectrum_bars_of_pixels(spect, last.args.cfg.bar_width_factor)
PixelDrawn(x, y) == [k \in 0..3 |-> last.out[(y * spect.width + x) * 4 + k]]
LastColor ==
    [k \in 0..3 |-> last.args.colors[(get_color_count(last.args.colors) - 1) * 4 + k]]
Background == [k \in 0..3 |-> 0]

\* Bar has pixels of its own and a peak indicator to show.
ShowsPeak(bar) ==
    /\ last.args.cfg.show_peaks
    /\ bar.start_x < bar.end_x
    /\ bar.peak_val > 0

\* The rows of the image above the solid part of the bar.
RowsAbove(bar) ==
    {y \in 0..(spect.height - 1) :
        y < spect.height - spectrum_scaled_height(bar.val, last.args.saturation,
                                                   spect.height)}

\* Row y, and of the rows above the bar only row y, holds the last color
\* across the pixel range of the bar.
OnePeakRow(bar, y) ==
    /\ y \in 0..(spect.height - 1)
    /\ \A x \in bar.start_x..(bar.end_x - 1) :
          /\ PixelDrawn(x, y) = LastColor
          /\ \A other \in RowsAbove(bar) \ {y} : PixelDrawn(x, other) = Background

(***************************************************************************)
(* C26 as stated: in render_saturated with show_peaks, for every bar with  *)
(* peak_normalized > 0, peak_normalized = 1 included, exactly one row of   *)
(* the last color-table entry is drawn across the bar's pixel range, at    *)
(* row height - round(peak_normalized * height) - 1.                       *)
(***************************************************************************)
C26_PeakRowAtRounded ==
    SpectrumRenderSaturatedCall =>
        \A i \in DOMAIN BarsDrawn :
            ShowsPeak(BarsDrawn[i]) =>
                LET peak == Min2(BarsDrawn[i].peak_val, last.args.saturation)
                    rounded == (2 * peak * spect.height + last.args.saturation)
                                   \div (2 * last.args.saturation)
                IN OnePeakRow(BarsDrawn[i], spect.height - rounded - 1)

(***************************************************************************)
(* C26 amended: in render_saturated with show_peaks, for every bar with    *)
(* 0 < peak_normalized < 1 exactly one row of the last color-table entry   *)
(* is drawn across the bar's pixel range, at row                           *)
(* height - floor(peak_normalized * height) - 1; for a bar with            *)
(* peak_normalized = 1 no peak row is drawn: every pixel above the bar is  *)
(* left as background.                                                     *)
(***************************************************************************)
C26_PeakRowBelowSaturation ==
    SpectrumRenderSaturatedCall =>
        \A i \in DOMAIN BarsDrawn :
            ShowsPeak(BarsDrawn[i]) =>
                LET bar == BarsDrawn[i]
                    floored == (bar.peak_val * spect.height) \div last.args.saturation
                IN IF bar.peak_val < last.args.saturation
                   THEN OnePeakRow(bar, spect.height - floored - 1)
                   ELSE \A x \in bar.start_x..(bar.end_x - 1), y \in RowsAbove(bar) :
                           PixelDrawn(x, y) = Background

\* A bin of height 3 with value 0 and peak 1 is drawn at saturation 2 from a
\* table of several colors: half the height truncates to 1, and row 1 holds
\* the last color while rows 0 and 2 stay background.
C26_Witness ==
    /\ SpectrumRenderSaturatedCall
    /\ last.args.cfg.show_peaks
    /\ get_color_count(last.args.colors) > 1
    /\ last.args.saturation = 2
    /\ spect.height = 3
    /\ spect.buffer[0] = 0 /\ spect.peak_values[0] = 1
    /\ PixelDrawn(0, 1) = LastColor
    /\ PixelDrawn(0, 0) = Background /\ PixelDrawn(0, 2) = Background

(***************************************************************************)
(* C28: in every heatmap state reached from construction by stamp calls    *)
(* with stamps of non-negative values, max_heat is the largest buffer cell *)
(* and no cell is negative; a weighted call with weight < 0 leaves the     *)
(* buffer and max_heat as they were.  (The stamp cells 1, 2, 3, ... are    *)
(* the values in units of the largest: a stamp with values in (0, 1].)     *)
(***************************************************************************)
C28_MaxHeatIsLargestCell ==
    (last.target = "heatmap") =>
        /\ \A i \in DOMAIN heat.buffer : heat.buffer[i] >= 0
        /\ heat.max_heat = SetMax({heat.buffer[i] : i \in DOMAIN heat.buffer})
        /\ (last.op = "add_weighted_point_with_stamp" /\ last.args.weight < 0) =>
               heat = last.before

\* A heatmap holding heat, its largest cell above what one stamp gives, has
\* just rejected a call with weight -1 whose anchor is inside it.
C28_Witness ==
    /\ last.target = "heatmap"
    /\ last.op = "add_weighted_point_with_stamp"
    /\ last.args.weight = 0 - 1
    /\ last.args.x < heat.width /\ last.args.y < heat.height
    /\ heat = last.before
    /\ heat.max_heat > Cardinality(DOMAIN last.stamp.buffer)
    /\ \E i \in DOMAIN heat.buffer : heat.buffer[i] = heat.max_heat
    /\ \E i \in DOMAIN heat.buffer : heat.buffer[i] < heat.max_heat

\* The size an array of Huffman codes is declared with.
DeclaredSize(array) ==
    IF array = "fixed_literal_length_codes" THEN fixed_literal_length_codes_size
    ELSE fixed_distance_codes_size

(***************************************************************************)
(* C29: init_fixed_huffman_codes and deflate_compress_fixed read and write *)
(* fixed_literal_length_codes and fixed_distance_codes only at indices     *)
(* inside the arrays as declared (286 and 30 elements), while the          *)
(* initialisation assigns a code to every literal/length symbol 0..287 and *)
(* every distance symbol 0..29.                                            *)
(***************************************************************************)
C29_TableIndicesInBounds ==
    /\ (last.target = "deflate" /\ last.op = "init_fixed_huffman_codes") =>
          /\ \A k \in DOMAIN last.out.writes :
                last.out.writes[k].index < DeclaredSize(last.out.writes[k].array)
          /\ \A sym \in 0..287 :
                \E k \in DOMAIN last.out.writes :
                    /\ last.out.writes[k].array = "fixed_literal_length_codes"
                    /\ last.out.writes[k].index = sym
          /\ \A sym \in 0..29 :
                \E k \in DOMAIN last.out.writes :
                    /\ last.out.writes[k].array = "fixed_distance_codes"
                    /\ last.out.writes[k].index = sym
          /\ last.out.tables = "initialized"
    /\ (last.target = "deflate" /\ last.op = "length_symbol") =>
          last.out.code < fixed_literal_length_codes_size
    /\ (last.target = "deflate" /\ last.op = "distance_symbol") =>
          last.out.code < fixed_distance_codes_size

\* The bits of a byte sequence in stream order, the low bit of each byte
\* first, as a function on 0..8*Len-1.
StreamBits(bytes) == [k \in 0..(8 * Len(bytes) - 1) |-> Bit(bytes[k \div 8 + 1], k % 8)]

\* The n bits at p read as a Huffman code (first bit highest) and as an
\* extra-bits field (first bit lowest); -1 when the stream ends before.
RECURSIVE CodeAt(_, _, _)
CodeAt(bits, p, n) ==
    IF p + n - 1 \notin DOMAIN bits THEN 0 - 1
    ELSE IF n = 0 THEN 0
    ELSE LET high == CodeAt(bits, p, n - 1)
         IN IF high < 0 THEN 0 - 1 ELSE 2 * high + bits[p + n - 1]

RECURSIVE FieldAt(_, _, _)
FieldAt(bits, p, n) ==
    IF n = 0 THEN 0
    ELSE IF p + n - 1 \notin DOMAIN bits THEN 0 - 1
    ELSE LET low == FieldAt(bits, p, n - 1)
         IN IF low < 0 THEN 0 - 1 ELSE low + bits[p + n - 1] * Pow2(n - 1)

\* The literal/length symbol of the fixed code of RFC 1951 at p, with the
\* position after it; symbol -1 when no code matches.
FixedSymbolAt(bits, p) ==
    LET c7 == CodeAt(bits, p, 7)
        c8 == CodeAt(bits, p, 8)
        c9 == CodeAt(bits, p, 9)
    IN IF 0 <= c7 /\ c7 <= 23 THEN [sym |-> 256 + c7, next |-> p + 7]
       ELSE IF 48 <= c8 /\ c8 <= 191 THEN [sym |-> c8 - 48, next |-> p + 8]
       ELSE IF 192 <= c8 /\ c8 <= 199 THEN [sym |-> 280 + (c8 - 192), next |-> p + 8]
       ELSE IF 400 <= c9 /\ c9 <= 511 THEN [sym |-> 144 + (c9 - 400), next |-> p + 9]
       ELSE [sym |-> 0 - 1, next |-> p]

\* A block of fixed codes read from p up to its first end-of-block symbol:
\* the literals and matches in it and the position after the symbol 256.
RECURSIVE InflateFixed(_, _, _)
InflateFixed(bits, p, tokens) ==
    Bind(FixedSymbolAt(bits, p), LAMBDA s :
    IF s.sym < 0 \/ s.sym > 285 THEN [ok |-> FALSE, tokens |-> tokens, end |-> p]
    ELSE IF s.sym = 256 THEN [ok |-> TRUE, tokens |-> tokens, end |-> s.next]
    ELSE IF s.sym < 256
    THEN Bind(Append(tokens, [kind |-> "literal", length |-> 0, distance |-> 0,
                              literal |-> s.sym]),
              LAMBDA more : InflateFixed(bits, s.next, more))
    ELSE Bind([l |-> length_table[s.sym - 257],
               lextra |-> FieldAt(bits, s.next, length_table[s.sym - 257].extra),
               dcode |-> CodeAt(bits, s.next + length_table[s.sym - 257].extra, 5)],
              LAMBDA len :
         IF len.lextra < 0 \/ len.dcode < 0 \/ len.dcode > 29
         THEN [ok |-> FALSE, tokens |-> tokens, end |-> p]
         ELSE Bind([d |-> distance_table[len.dcode],
                    at |-> s.next + len.l.extra + 5,
                    dextra |-> FieldAt(bits, s.next + len.l.extra + 5,
                                       distance_table[len.dcode].extra)],
                   LAMBDA dist :
              IF dist.dextra < 0 THEN [ok |-> FALSE, tokens |-> tokens, end |-> p]
              ELSE Bind([next |-> dist.at + dist.d.extra,
                         more |-> Append(tokens,
                                         [kind |-> "match",
                                          length |-> len.l.base + len.lextra,
                                          distance |-> dist.d.base + dist.dextra,
                                          literal |-> 0])],
                        LAMBDA r : InflateFixed(bits, r.next, r.more)))))

\* The bytes the tokens cover, one after the other from position 0.
RECURSIVE TokensSpan(_)
TokensSpan(tokens) ==
    IF tokens = <<>> THEN 0
    ELSE TokensSpan(SubSeq(tokens, 1, Len(tokens) - 1))
            + (IF tokens[Len(tokens)].kind = "match" THEN tokens[Len(tokens)].length ELSE 1)

\* The output is one final block of fixed codes: header bits 1 (BFINAL) and
\* 1, 0 (BTYPE = 01), the tokens, one symbol 256, zero bits up to the byte.
OneFixedBlock(bytes, tokens) ==
    /\ Len(bytes) > 0
    /\ Bind(StreamBits(bytes), LAMBDA bits :
          /\ bits[0] = 1 /\ bits[1] = 1 /\ bits[2] = 0
          /\ Bind(InflateFixed(bits, 3, <<>>), LAMBDA block :
                /\ block.ok
                /\ block.tokens = tokens
                /\ 8 * Len(bytes) - block.end < 8
                /\ \A k \in block.end..(8 * Len(bytes) - 1) : bits[k] = 0))

DeflateReturned == d_pc \in {"returned", "returned_null"}

\* One iteration of the loop: it emits one token and moves the position on by
\* what the token covers, not past the end of the input.
DeflateIteration ==
    (d_tokens' # d_tokens) =>
        /\ Len(d_tokens') = Len(d_tokens) + 1
        /\ SubSeq(d_tokens', 1, Len(d_tokens)) = d_tokens
        /\ LET tok == d_tokens'[Len(d_tokens')]
           IN /\ tok.kind = "match" => tok.length >= MIN_MATCH
              /\ d_pos' = d_pos + (IF tok.kind = "match" THEN tok.length ELSE 1)
        /\ d_pos' > d_pos
        /\ d_pos' <= Len(d_data)

====
